---- MODULE Spec2Model ----
(***************************************************************************)
(* Model of the tabiew interaction engine.                                 *)
(*                                                                         *)
(*  - src/src/app.rs, src/src/app/tabular.rs : the application state       *)
(*    machine (App::handle_key_event, App::invoke, App::draw) over the     *)
(*    Tabular viewport.  Specifications Spec and NavSpec.                  *)
(*  - src/src/handler/key.rs : the hierarchical key resolver               *)
(*    (Keybind::matches, Keybinds::find, KeyHandler::action and the        *)
(*    default binding tables).  Specification KeySpec.                     *)
(***************************************************************************)
EXTENDS Integers, Sequences, FiniteSets, TLC

(***************************************************************************)
(* Bounds of the model.                                                    *)
(***************************************************************************)
\* number of bits of the (scaled-down) machine word standing for usize
UsizeBits == 4
\* largest height of a data frame produced by the query engine
MaxRows == 2
\* largest height of the table area handed to Tabular::render
MaxHeight == 2
\* largest step typed by the user besides usize::MAX
MaxStep == 1
\* longest command line typed into the prompt
MaxCmdLen == 2
\* largest number of wrapped detail lines / detail scroll offset
MaxLines == 1
\* navigation specification: tallest table and tallest table area
NavRows == 10
NavHeight == 6
\* fixed-width reader: longest line and most lines of the enumerated files
FwfMaxLen == 3
FwfMaxLines == 2
\* fixed-width reader: length of the lines of the padded two-line files
PaddedLen == 11
\* schema inference: most rows of an enumerated column
MaxColLen == 2
\* fuzzy matching: longest cell text, longest query, largest integer cell
MaxTextLen == 3
MaxQueryLen == 2
MaxCellInt == 12
\* dataset transforms: most rows of the frame a session is started on
XMaxRows == 3
\* schema view: most fields of a table schema, tallest and widest area
\* handed to FieldInfoTable::render, largest offset and largest row index
\* written through table_state_mut
MaxFields == 4
MaxAreaHeight == 5
MaxFieldOffset == 6
MaxAreaWidth == 3
MaxFieldSelect == 4

UsizeMax == 2 ^ UsizeBits - 1

(***************************************************************************)
(* Arithmetic of the source.                                               *)
(***************************************************************************)
Min(a, b) == IF a <= b THEN a ELSE b

Max(a, b) == IF a >= b THEN a ELSE b

\* usize::saturating_sub / u16::saturating_sub
saturating_sub(a, b) == IF a >= b THEN a - b ELSE 0

\* Ord::clamp(self, min, max), called with min <= max
clamp(x, lo, hi) == IF x < lo THEN lo ELSE IF x > hi THEN hi ELSE x

(***************************************************************************)
(* Data frames.  A frame is known to the viewer by its contents and its    *)
(* height; the contents are named after where the frame comes from: the    *)
(* default frame of the session, the result of a query run by the session  *)
(* backend ("sql"), the result of a query run over the frame on display    *)
(* ("derived"), the list of tables, the list of commands.                  *)
(***************************************************************************)
Contents == {"default", "sql", "derived", "tables", "help"}

DataFrame(c, h) == [contents |-> c, height |-> h]

DataFrames(maxRows) == [contents : Contents, height : 0 .. maxRows]

\* utils::data_frame_widths, DataFrame::get_column_names,
\* TableValues::from_dataframe / replace_dataframe: each is a function of
\* the frame alone
data_frame_widths(df) == df.contents

get_column_names(df) == df.contents

TableValues(df) == [of |-> df.contents, height |-> df.height]

(***************************************************************************)
(* utils::Scroll, held as Option<Scroll> by Tabular.                       *)
(***************************************************************************)
NoScroll == [some |-> FALSE, val |-> 0]

SomeScroll(n) == [some |-> TRUE, val |-> n]

\* Scroll::default()
ScrollDefault == SomeScroll(0)

ScrollUp(s) == SomeScroll(saturating_sub(s.val, 1))

ScrollDown(s) == SomeScroll(Min(s.val + 1, MaxLines))

\* Scroll::adjust(lines, space)
ScrollAdjust(s, lines, space) == SomeScroll(Min(s.val, saturating_sub(lines, space)))

(***************************************************************************)
(* Tabular (src/src/app/tabular.rs).  Every method returning AppResult is  *)
(* an operator giving the set of its possible outcomes                     *)
(* [t: the Tabular afterwards, res: "Ok" | "Err" | "Panic", err: message]. *)
(***************************************************************************)
Ok(t) == [t |-> t, res |-> "Ok", err |-> ""]

Err(t, msg) == [t |-> t, res |-> "Err", err |-> msg]

Panic(t) == [t |-> t, res |-> "Panic", err |-> ""]

\* Tabular::new
TabularNew(df) ==
    [offset |-> 0,
     select |-> 0,
     rendered_rows |-> 0,
     widths |-> data_frame_widths(df),
     headers |-> get_column_names(df),
     table_values |-> TableValues(df),
     data_frame |-> df,
     scroll |-> NoScroll]

\* select with the clamp taken at the height instead of the last row
select_at_height(t, i) ==
    {Ok([t EXCEPT !.select = Min(i, t.table_values.height)])}

\* Tabular::select
select(t, i) ==
    {Ok([t EXCEPT !.select = Min(i, saturating_sub(t.table_values.height, 1))])}

\* Tabular::select_up
select_up(t, len) == select(t, saturating_sub(t.select, len))

\* Tabular::select_down: `self.select + len` is a plain usize addition; on
\* overflow a build with overflow checks panics and one without wraps
select_down(t, len) ==
    IF t.select + len > UsizeMax
    THEN {Panic(t)} \cup select(t, (t.select + len) % (UsizeMax + 1))
    ELSE select(t, t.select + len)

\* Tabular::select_first
select_first(t) == select(t, 0)

\* Tabular::select_last
select_last(t) == select(t, UsizeMax)

\* Tabular::select_random: gen_range panics on the empty range 0..0
select_random(t) ==
    IF t.table_values.height = 0
    THEN {Panic(t)}
    ELSE UNION {select(t, r) : r \in 0 .. t.table_values.height - 1}

\* Tabular::scroll_up
scroll_up(t) ==
    IF t.scroll.some
    THEN {Ok([t EXCEPT !.scroll = ScrollUp(t.scroll)])}
    ELSE {Err(t, "Not in detail view")}

\* scroll_down that opens the detail view when there is none
scroll_down_opens_detail(t) ==
    IF t.scroll.some
    THEN {Ok([t EXCEPT !.scroll = ScrollDown(t.scroll)])}
    ELSE {Ok([t EXCEPT !.scroll = ScrollDefault])}

\* Tabular::scroll_down
scroll_down(t) ==
    IF t.scroll.some
    THEN {Ok([t EXCEPT !.scroll = ScrollDown(t.scroll)])}
    ELSE {Err(t, "Not in detail view")}

\* Tabular::page_len
page_len(t) == t.rendered_rows

\* a half page as long as the full page
half_page_undivided(t) == page_len(t)

\* `self.tabular.page_len().div(2)` of the half-page actions
half_page(t) == page_len(t) \div 2

\* adjust_offset with the lower clamp taken a full page above the selection
adjust_offset_full_page(t) ==
    [t EXCEPT !.offset =
        clamp(t.offset, saturating_sub(t.select, t.rendered_rows), t.select)]

\* Tabular::adjust_offset
adjust_offset(t) ==
    [t EXCEPT !.offset =
        clamp(t.offset,
              saturating_sub(t.select, saturating_sub(t.rendered_rows, 1)),
              t.select)]

\* Tabular::detail_view
detail_view(t) == {Ok([t EXCEPT !.scroll = ScrollDefault])}

\* Tabular::table_view
table_view(t) == {Ok([t EXCEPT !.scroll = NoScroll])}

\* Tabular::switch_view
switch_view(t) == IF ~t.scroll.some THEN detail_view(t) ELSE table_view(t)

\* set_data_frame that keeps the offset
set_data_frame_keep_offset(t, df) ==
    {Ok([t EXCEPT !.widths = data_frame_widths(df),
                  !.select = 0,
                  !.headers = get_column_names(df),
                  !.table_values = TableValues(df),
                  !.data_frame = df])}

\* Tabular::set_data_frame
set_data_frame(t, df) ==
    {Ok([t EXCEPT !.widths = data_frame_widths(df),
                  !.offset = 0,
                  !.select = 0,
                  !.headers = get_column_names(df),
                  !.table_values = TableValues(df),
                  !.data_frame = df])}

\* render that leaves the offset of the table view where it is
render_keep_offset(t, height, lines) ==
    IF t.scroll.some
    THEN [t EXCEPT !.rendered_rows = 0,
                   !.scroll = ScrollAdjust(t.scroll, lines, saturating_sub(height, 2))]
    ELSE [t EXCEPT !.rendered_rows = saturating_sub(height, 1)]

\* Tabular::render with layout.height = height; lines is the line count of
\* the wrapped detail paragraph
render(t, height, lines) ==
    IF t.scroll.some
    THEN [t EXCEPT !.rendered_rows = 0,
                   !.scroll = ScrollAdjust(t.scroll, lines, saturating_sub(height, 2))]
    ELSE adjust_offset([t EXCEPT !.rendered_rows = saturating_sub(height, 1)])

(***************************************************************************)
(* StatusBar (module app::status_bar): Normal, Error(msg) or Command(text). *)
(***************************************************************************)
StatusNormal == [kind |-> "Normal", msg |-> "", text |-> <<>>]

StatusError(msg) == [kind |-> "Error", msg |-> msg, text |-> <<>>]

StatusCommand(text) == [kind |-> "Command", msg |-> "", text |-> text]

\* StatusBar::stats, StatusBar::command, StatusBar::error
stats(sb) == StatusNormal

command(sb, prefix) == StatusCommand(prefix)

error(sb, msg) == StatusError(msg)

\* StatusBar::commit_prompt: the typed text when a prompt is open
commit_prompt(sb) ==
    IF sb.kind = "Command" THEN [some |-> TRUE, text |-> sb.text]
    ELSE [some |-> FALSE, text |-> <<>>]

(***************************************************************************)
(* Key events seen by App::handle_key_event (only the code is matched).    *)
(***************************************************************************)
Alphabet == {"c", " "}

Key(code, ch) == [code |-> code, ch |-> ch]

AppKeys ==
    {Key("Esc", ""), Key("Enter", ""), Key("Backspace", ""), Key("Tab", ""),
     Key("Char", ":")} \cup {Key("Char", c) : c \in Alphabet}

\* StatusBar::input: the prompt's text field handles the key
input(sb, key) ==
    IF sb.kind # "Command" THEN sb
    ELSE IF key.code = "Char" /\ Len(sb.text) < MaxCmdLen
         THEN StatusCommand(Append(sb.text, key.ch))
    ELSE IF key.code = "Backspace" /\ Len(sb.text) > 0
         THEN StatusCommand(SubSeq(sb.text, 1, Len(sb.text) - 1))
    ELSE sb

(***************************************************************************)
(* AppAction (src/src/app.rs:38-66).  n is the usize argument and s the    *)
(* String argument of the variants that have one.                          *)
(***************************************************************************)
Action(kind, n, s) == [kind |-> kind, n |-> n, s |-> s]

UsizeArgs == (0 .. MaxStep) \cup {UsizeMax}

PlainKinds ==
    {"StatusBarStats", "TabularTableView", "TabularDetailView",
     "TabularSwitchView", "SqlBackendTable", "TabularGotoFirst",
     "TabularGotoLast", "TabularGotoRandom", "TabularGoUpHalfPage",
     "TabularGoUpFullPage", "TabularGoDownHalfPage", "TabularGoDownFullPage",
     "DetailScrollUp", "DetailScrollDown", "TabularReset", "Help", "Quit"}

UsizeKinds == {"TabularGoto", "TabularGoUp", "TabularGoDown"}

StringKinds ==
    {"StatusBarCommand", "StatausBarError", "SqlQuery", "TabularSelect",
     "TabularOrder", "TabularFilter"}

AppActions ==
    {Action(k, 0, <<>>) : k \in PlainKinds}
    \cup {Action(k, n, <<>>) : k \in UsizeKinds, n \in UsizeArgs}
    \cup {Action(k, 0, <<>>) : k \in StringKinds}
    \cup {Action("StatusBarCommand", 0, <<"c">>)}

NoAction == Action("None", 0, <<>>)

(***************************************************************************)
(* SqlBackend: the external query engine.  execute may reject the query or *)
(* return any frame; default_df is the frame registered as default, if any.*)
(***************************************************************************)
NoFrame == [contents |-> "none", height |-> 0]

\* SqlBackend::execute: Err or Ok(frame)
execute(contents, maxRows) ==
    {[ok |-> FALSE, df |-> NoFrame]}
    \cup {[ok |-> TRUE, df |-> DataFrame(contents, h)] : h \in 0 .. maxRows}

\* SqlBackend::table_df: one row per registered table
table_df == DataFrame("tables", 1)

\* Commands::default().into_data_frame(): one row per command
help_df == DataFrame("help", 2)

(***************************************************************************)
(* App::invoke.  app = [tabular, status_bar, running]; the result is the   *)
(* set of outcomes [app, res, err].                                        *)
(***************************************************************************)
AppOk(app) == [app |-> app, res |-> "Ok", err |-> ""]

AppErr(app, msg) == [app |-> app, res |-> "Err", err |-> msg]

\* lift the outcomes of a Tabular method to outcomes of the App
OnTabular(app, outs) ==
    {[app |-> [app EXCEPT !.tabular = o.t], res |-> o.res, err |-> o.err] : o \in outs}

\* the viewport is reset before the query is known to succeed
SetFromQueryEager(app, results) ==
    UNION {IF r.ok THEN OnTabular(app, set_data_frame(app.tabular, r.df))
           ELSE {AppErr([app EXCEPT !.tabular.select = 0, !.tabular.offset = 0],
                        "engine error")} : r \in results}

\* `self.tabular.set_data_frame(<query>?)`: an engine error returns early
SetFromQuery(app, results) ==
    UNION {IF r.ok THEN OnTabular(app, set_data_frame(app.tabular, r.df))
           ELSE {AppErr(app, "engine error")} : r \in results}

invoke(app, sql, action, maxRows) ==
    LET t == app.tabular
        k == action.kind
    IN  CASE k = "StatusBarStats" ->
               {AppOk([app EXCEPT !.status_bar = stats(app.status_bar)])}
          [] k = "StatusBarCommand" ->
               {AppOk([app EXCEPT !.status_bar = command(app.status_bar, action.s)])}
          [] k = "StatausBarError" ->
               {AppOk([app EXCEPT !.status_bar = error(app.status_bar, "message")])}
          [] k = "TabularTableView" -> OnTabular(app, table_view(t))
          [] k = "TabularDetailView" -> OnTabular(app, detail_view(t))
          [] k = "TabularSwitchView" -> OnTabular(app, switch_view(t))
          [] k = "SqlQuery" -> SetFromQuery(app, execute("sql", maxRows))
          [] k = "SqlBackendTable" ->
               OnTabular(app, set_data_frame(t, table_df))
          [] k = "TabularGoto" -> OnTabular(app, select(t, action.n))
          [] k = "TabularGotoFirst" -> OnTabular(app, select_first(t))
          [] k = "TabularGotoLast" -> OnTabular(app, select_last(t))
          [] k = "TabularGotoRandom" -> OnTabular(app, select_random(t))
          [] k = "TabularGoUp" -> OnTabular(app, select_up(t, action.n))
          [] k = "TabularGoUpHalfPage" -> OnTabular(app, select_up(t, half_page(t)))
          [] k = "TabularGoUpFullPage" -> OnTabular(app, select_up(t, page_len(t)))
          [] k = "TabularGoDown" -> OnTabular(app, select_down(t, action.n))
          [] k = "TabularGoDownHalfPage" -> OnTabular(app, select_down(t, half_page(t)))
          [] k = "TabularGoDownFullPage" -> OnTabular(app, select_down(t, page_len(t)))
          [] k = "DetailScrollUp" -> OnTabular(app, scroll_up(t))
          [] k = "DetailScrollDown" -> OnTabular(app, scroll_down(t))
          [] k = "TabularReset" ->
               IF sql.default # NoFrame
               THEN OnTabular(app, set_data_frame(t, sql.default))
               ELSE {AppErr(app, "Default data frame not found")}
          [] k = "TabularSelect" -> SetFromQuery(app, execute("derived", maxRows))
          [] k = "TabularOrder" -> SetFromQuery(app, execute("derived", maxRows))
          [] k = "TabularFilter" -> SetFromQuery(app, execute("derived", maxRows))
          [] k = "Help" ->
               OnTabular(app, set_data_frame(t, help_df))
          [] k = "Quit" -> {AppOk([app EXCEPT !.running = FALSE])}

(***************************************************************************)
(* CommandRegistery (exec_table): keyword -> parse function.  The registry *)
(* is handed to App::new; here it holds one keyword whose parse function   *)
(* may reject the remainder or yield any action.                           *)
(***************************************************************************)
Keywords == {<<"c">>}

\* a lookup that finds a parse function for every first word
exec_table_get_any(s1) == TRUE

\* CommandRegistery::get
exec_table_get(s1) == s1 \in Keywords

\* parse_fn(s2): Err(parse error) or Ok(action)
parse_fn(s1, s2) ==
    {[ok |-> FALSE, action |-> NoAction]}
    \cup {[ok |-> TRUE, action |-> a] : a \in AppActions}

\* position of the first c in text, 0 when there is none
RECURSIVE find_char(_, _, _)
find_char(text, c, i) ==
    IF i > Len(text) THEN 0
    ELSE IF text[i] = c THEN i
    ELSE find_char(text, c, i + 1)

\* command.split_once(' ').unwrap_or((command, ""))
split_once(text) ==
    LET i == find_char(text, " ", 1)
    IN  IF i = 0 THEN <<text, <<>>>>
        ELSE <<SubSeq(text, 1, i - 1), SubSeq(text, i + 1, Len(text))>>

\* infer_state that looks at the detail scroll first
infer_state_scroll_first(app) ==
    IF app.tabular.scroll.some THEN "Detail"
    ELSE CASE app.status_bar.kind = "Normal" -> "Tabular"
           [] app.status_bar.kind = "Error" -> "Error"
           [] app.status_bar.kind = "Command" -> "Command"

(***************************************************************************)
(* App (src/src/app.rs).                                                   *)
(***************************************************************************)
\* App::infer_state
infer_state(app) ==
    CASE app.status_bar.kind = "Normal" ->
            IF app.tabular.scroll.some THEN "Detail" ELSE "Tabular"
      [] app.status_bar.kind = "Error" -> "Error"
      [] app.status_bar.kind = "Command" -> "Command"

\* a match whose Command arm takes characters and Backspace only
match_arm_text_keys(state, key) ==
    IF state \in {"Command", "Error"} /\ key.code = "Esc" THEN "esc"
    ELSE IF state = "Command" /\ key.code = "Enter" THEN "commit"
    ELSE IF state = "Command" /\ key.code \in {"Char", "Backspace"} THEN "input"
    ELSE IF state \in {"Tabular", "Detail", "Error"} /\ key = Key("Char", ":") THEN "colon"
    ELSE "bound"

\* the arm of the match in App::handle_key_event taken by (state, key code)
match_arm(state, key) ==
    IF state \in {"Command", "Error"} /\ key.code = "Esc" THEN "esc"
    ELSE IF state = "Command" /\ key.code = "Enter" THEN "commit"
    ELSE IF state = "Command" THEN "input"
    ELSE IF state \in {"Tabular", "Detail", "Error"} /\ key = Key("Char", ":") THEN "colon"
    ELSE "bound"

\* outcome of a handler: the App afterwards, the action it invoked (if any)
\* and the result of parsing and invoking it
Handled(app, action, res, err) == [app |-> app, action |-> action, res |-> res, err |-> err]

\* a failed parse or invocation is handed back to the caller instead of
\* being shown in the status bar
commit_found_propagate(app, sql, s1, s2, maxRows) ==
    UNION {IF ~pr.ok
           THEN {Handled(app, NoAction, "Err", "parse error")}
           ELSE {IF o.res = "Ok"
                 THEN Handled([o.app EXCEPT !.status_bar = stats(o.app.status_bar)],
                              pr.action, "Ok", "")
                 ELSE Handled(o.app, pr.action, o.res, o.err)
                   : o \in invoke(app, sql, pr.action, maxRows)}
             : pr \in parse_fn(s1, s2)}

\* `match parse_fn(s2).and_then(|action| self.invoke(action))`
commit_found(app, sql, s1, s2, maxRows) ==
    UNION {IF ~pr.ok
           THEN {Handled([app EXCEPT !.status_bar = error(app.status_bar, "parse error")],
                         NoAction, "Err", "parse error")}
           ELSE {IF o.res = "Ok"
                 THEN Handled([o.app EXCEPT !.status_bar = stats(o.app.status_bar)],
                              pr.action, "Ok", "")
                 ELSE IF o.res = "Err"
                 THEN Handled([o.app EXCEPT !.status_bar = error(o.app.status_bar, o.err)],
                              pr.action, "Err", o.err)
                 ELSE Handled(o.app, pr.action, "Panic", "")
                   : o \in invoke(app, sql, pr.action, maxRows)}
             : pr \in parse_fn(s1, s2)}

\* the Enter arm leaving the prompt open when the keyword is unknown
commit_unknown_keeps_prompt(app, sql, maxRows) ==
    LET cp == commit_prompt(app.status_bar)
        sp == split_once(cp.text)
    IN  IF cp.some
        THEN IF exec_table_get(sp[1])
             THEN commit_found(app, sql, sp[1], sp[2], maxRows)
             ELSE {Handled(app, NoAction, "Err", "Command not found")}
        ELSE {Handled([app EXCEPT !.status_bar =
                          error(app.status_bar, "Invalid state; consider restarting Tabiew")],
                      NoAction, "Err", "Invalid state; consider restarting Tabiew")}

\* App::handle_key_event, arm (AppState::Command, KeyCode::Enter)
commit(app, sql, maxRows) ==
    LET cp == commit_prompt(app.status_bar)
        sp == split_once(cp.text)
    IN  IF cp.some
        THEN IF exec_table_get(sp[1])
             THEN commit_found(app, sql, sp[1], sp[2], maxRows)
             ELSE {Handled([app EXCEPT !.status_bar = error(app.status_bar, "Command not found")],
                           NoAction, "Err", "Command not found")}
        ELSE {Handled([app EXCEPT !.status_bar =
                          error(app.status_bar, "Invalid state; consider restarting Tabiew")],
                      NoAction, "Err", "Invalid state; consider restarting Tabiew")}

\* App::handle_key_event whose Esc arm also leaves the detail view
handle_key_event_esc_table_view(app, sql, key, bound, maxRows) ==
    LET arm == match_arm(infer_state(app), key)
    IN  CASE arm = "esc" ->
               {Handled([app EXCEPT !.status_bar = stats(app.status_bar),
                                    !.tabular = [app.tabular EXCEPT !.scroll = NoScroll]],
                        NoAction, "Ok", "")}
          [] arm = "commit" -> commit(app, sql, maxRows)
          [] arm = "input" ->
               {Handled([app EXCEPT !.status_bar = input(app.status_bar, key)], NoAction, "Ok", "")}
          [] arm = "colon" ->
               {Handled([app EXCEPT !.status_bar = command(app.status_bar, <<>>)], NoAction, "Ok", "")}
          [] arm = "bound" ->
               IF bound = NoAction THEN {Handled(app, NoAction, "Ok", "")}
               ELSE {Handled(o.app, bound, o.res, o.err) : o \in invoke(app, sql, bound, maxRows)}

\* App::handle_key_event; bound is what keybindings.get_action(state, key)
\* yields (NoAction for None)
handle_key_event(app, sql, key, bound, maxRows) ==
    LET arm == match_arm(infer_state(app), key)
    IN  CASE arm = "esc" ->
               {Handled([app EXCEPT !.status_bar = stats(app.status_bar)], NoAction, "Ok", "")}
          [] arm = "commit" -> commit(app, sql, maxRows)
          [] arm = "input" ->
               {Handled([app EXCEPT !.status_bar = input(app.status_bar, key)], NoAction, "Ok", "")}
          [] arm = "colon" ->
               {Handled([app EXCEPT !.status_bar = command(app.status_bar, <<>>)], NoAction, "Ok", "")}
          [] arm = "bound" ->
               IF bound = NoAction THEN {Handled(app, NoAction, "Ok", "")}
               ELSE {Handled(o.app, bound, o.res, o.err) : o \in invoke(app, sql, bound, maxRows)}

(***************************************************************************)
(* Key resolver (src/src/handler/key.rs).                                  *)
(***************************************************************************)
Modifiers == {"SHIFT", "CONTROL", "ALT"}

Uppercase == {"H", "L", "G", "K", "J"}

Digits == {"0", "1", "2", "3", "4", "5", "6", "7", "8", "9"}

KeyChars ==
    {"q", ":", "/", "e", "k", "j", "h", "l", "u", "d", "b", "f", "_", "$",
     "g", "r", "p", "n", "x"} \cup Uppercase \cup Digits

KeyCodes ==
    {"Enter", "Esc", "Up", "Down", "Left", "Right", "Home", "End", "PageUp",
     "PageDown", "Backspace", "Delete", "Tab", "Null"}

\* KeyEvent { code, modifiers, .. }
Event(code, ch, mods) == [code |-> code, ch |-> ch, mods |-> mods]

KeyEvents ==
    {Event("Char", c, m) : c \in KeyChars, m \in SUBSET Modifiers}
    \cup {Event(k, "", m) : k \in KeyCodes, m \in SUBSET Modifiers}

\* AppAction of the handler (handler::action::AppAction), with its argument
KAction(kind, arg) == [kind |-> kind, arg |-> arg]

KNoAction == KAction("NoAction", "")

\* Keybind::default()
KeybindDefault == [code |-> "Null", ch |-> "", mods |-> {}, action |-> KNoAction]

\* Keybind::code
kb_code(kb, code, ch) == [kb EXCEPT !.code = code, !.ch = ch]

\* Keybind::char
kb_char(kb, c) ==
    [kb EXCEPT !.code = "Char", !.ch = c,
               !.mods = IF c \in Uppercase THEN @ \cup {"SHIFT"} ELSE @]

\* Keybind::shift
kb_shift(kb) == [kb EXCEPT !.mods = @ \cup {"SHIFT"}]

\* Keybind::ctrl
kb_ctrl(kb) == [kb EXCEPT !.mods = @ \cup {"CONTROL"}]

\* Keybind::action
kb_action(kb, kind, arg) == [kb EXCEPT !.action = KAction(kind, arg)]

\* shorthands for the builder chains of KeyHandler::default
OnChar(c, kind, arg) == kb_action(kb_char(KeybindDefault, c), kind, arg)

OnCode(code, kind, arg) == kb_action(kb_code(KeybindDefault, code, ""), kind, arg)

OnCtrlChar(c, kind, arg) == kb_action(kb_ctrl(kb_char(KeybindDefault, c)), kind, arg)

OnShiftCode(code, kind, arg) ==
    kb_action(kb_shift(kb_code(KeybindDefault, code, "")), kind, arg)

\* .code(KeyCode::Char(c)).ctrl()
OnCtrlCode(c, kind, arg) == kb_action(kb_ctrl(kb_code(KeybindDefault, "Char", c)), kind, arg)

AppContexts == {"Empty", "Error", "Table", "Command", "Sheet", "Search"}

\* KeyHandler::default: the keybind list registered for each context
KeybindList(context) ==
    CASE context = "Empty" ->
           <<OnChar("q", "TabRemoveOrQuit", ""),
             OnChar("H", "TabPrev", ""),
             OnChar("L", "TabNext", ""),
             OnShiftCode("Left", "TabPrev", ""),
             OnShiftCode("Right", "TabNext", ""),
             OnChar(":", "PalleteShow", "")>>
      [] context = "Error" ->
           <<OnChar(":", "DismissErrorAndShowPallete", "")>>
      [] context = "Table" ->
           <<OnCode("Enter", "SheetShow", ""),
             OnChar("/", "SearchShow", ""),
             OnChar("e", "TableToggleExpansion", ""),
             OnCode("Up", "TableGoUp", "1"),
             OnCode("Down", "TableGoDown", "1"),
             OnCode("Left", "TableScrollLeft", ""),
             OnCode("Right", "TableScrollRight", ""),
             OnChar("k", "TableGoUp", "1"),
             OnChar("j", "TableGoDown", "1"),
             OnChar("h", "TableScrollLeft", ""),
             OnChar("l", "TableScrollRight", ""),
             OnCtrlChar("u", "TableGoUpHalfPage", ""),
             OnCtrlChar("d", "TableGoDownHalfPage", ""),
             OnCtrlChar("b", "TableGoUpFullPage", ""),
             OnCtrlChar("d", "TableGoDownFullPage", ""),
             OnCode("PageUp", "TableGoUpFullPage", ""),
             OnCode("PageDown", "TableGoDownFullPage", ""),
             OnChar("_", "TableScrollStart", ""),
             OnChar("$", "TableScrollEnd", ""),
             OnChar("g", "TableGotoFirst", ""),
             OnChar("G", "TableGotoLast", ""),
             OnCode("Home", "TableGotoFirst", ""),
             OnCode("End", "TableGotoLast", ""),
             OnCtrlCode("r", "TableReset", "")>>
      [] context = "Command" ->
           <<OnCode("Left", "PalleteGotoPrev", ""),
             OnCode("Right", "PalleteGotoNext", ""),
             OnCode("Home", "PalleteGotoStart", ""),
             OnCode("End", "PalleteGotoEnd", ""),
             OnCode("Backspace", "PalleteDeletePrev", ""),
             OnCode("Delete", "PalleteDeleteNext", ""),
             OnCode("Up", "PalleteSelectPrevious", ""),
             OnCode("Down", "PalleteSelectNext", ""),
             OnCtrlCode("p", "PalleteSelectPrevious", ""),
             OnCtrlCode("n", "PalleteSelectNext", ""),
             OnCode("Enter", "PalleteInsertSelectedOrCommit", ""),
             OnCode("Esc", "PalleteDeselectOrDismiss", "")>>
      [] context = "Sheet" ->
           <<OnChar("q", "TableDismissModal", ""),
             OnCode("Esc", "TableDismissModal", ""),
             OnShiftCode("Up", "SheetScrollUp", ""),
             OnShiftCode("Down", "SheetScrollDown", ""),
             OnChar("K", "SheetScrollUp", ""),
             OnChar("J", "SheetScrollDown", "")>>
      [] context = "Search" ->
           <<OnCode("Left", "SearchGotoPrev", ""),
             OnCode("Right", "SearchGotoNext", ""),
             OnCode("Home", "SearchGotoStart", ""),
             OnCode("End", "SearchGotoEnd", ""),
             OnCode("Backspace", "SearchDeletePrev", ""),
             OnCode("Delete", "SearchDeleteNext", ""),
             OnCode("Enter", "SearchCommit", ""),
             OnCode("Esc", "SearchRollback", "")>>

KSome(action) == [some |-> TRUE, action |-> action]

KNone == [some |-> FALSE, action |-> KNoAction]

\* the fallbacks with a goto shortcut on the digit 0 as well
fall_back_any_digit(context, event) ==
    CASE context = "Error" -> KSome(KAction("DismissError", ""))
      [] context = "Table" ->
           IF event.code = "Char" /\ event.ch \in Digits
           THEN KSome(KAction("PalleteShow", "goto " \o event.ch))
           ELSE KNone
      [] context = "Command" ->
           IF event.code = "Char" THEN KSome(KAction("PalleteInsert", event.ch)) ELSE KNone
      [] context = "Search" ->
           IF event.code = "Char" THEN KSome(KAction("SearchInsert", event.ch)) ELSE KNone
      [] OTHER -> KNone

\* the fallbacks inserting a character only when no Ctrl or Alt is held
fall_back_plain_chars(context, event) ==
    LET plain == event.code = "Char" /\ event.mods \subseteq {"SHIFT"}
    IN  CASE context = "Error" -> KSome(KAction("DismissError", ""))
          [] context = "Table" ->
               IF event.code = "Char" /\ event.ch \in Digits \ {"0"}
               THEN KSome(KAction("PalleteShow", "goto " \o event.ch))
               ELSE KNone
          [] context = "Command" ->
               IF plain THEN KSome(KAction("PalleteInsert", event.ch)) ELSE KNone
          [] context = "Search" ->
               IF plain THEN KSome(KAction("SearchInsert", event.ch)) ELSE KNone
          [] OTHER -> KNone

\* KeyHandler::default: the fallback closure registered for each context
\* (KNone as well for a context without one)
fall_back(context, event) ==
    CASE context = "Error" -> KSome(KAction("DismissError", ""))
      [] context = "Table" ->
           IF event.code = "Char" /\ event.ch \in Digits \ {"0"}
           THEN KSome(KAction("PalleteShow", "goto " \o event.ch))
           ELSE KNone
      [] context = "Command" ->
           IF event.code = "Char" THEN KSome(KAction("PalleteInsert", event.ch)) ELSE KNone
      [] context = "Search" ->
           IF event.code = "Char" THEN KSome(KAction("SearchInsert", event.ch)) ELSE KNone
      [] OTHER -> KNone

\* matches that compares the key code only
matches_code_only(kb, event) ==
    IF kb.code = event.code /\ kb.ch = event.ch
    THEN KSome(kb.action)
    ELSE KNone

\* Keybind::matches
matches(kb, event) ==
    IF kb.code = event.code /\ kb.ch = event.ch /\ kb.mods = event.mods
    THEN KSome(kb.action)
    ELSE KNone

\* find_map that keeps the last match instead of the first
RECURSIVE find_map_last(_, _, _)
find_map_last(list, event, i) ==
    IF i > Len(list) THEN KNone
    ELSE LET rest == find_map_last(list, event, i + 1)
         IN  IF rest.some THEN rest ELSE matches(list[i], event)

\* Iterator::find_map over the keybind list, from position i
RECURSIVE find_map(_, _, _)
find_map(list, event, i) ==
    IF i > Len(list) THEN KNone
    ELSE IF matches(list[i], event).some THEN matches(list[i], event)
    ELSE find_map(list, event, i + 1)

\* find that never consults the fallback
find_without_fallback(context, event) == find_map(KeybindList(context), event, 1)

\* Keybinds::find
find(context, event) ==
    LET m == find_map(KeybindList(context), event, 1)
    IN  IF m.some THEN m ELSE fall_back(context, event)

\* AppContext::parent ("" for None)
parent(context) ==
    CASE context = "Empty" -> ""
      [] context \in {"Table", "Command", "Error"} -> "Empty"
      [] context \in {"Sheet", "Search"} -> "Table"

(***************************************************************************)
(* reader::fwf: inference of the column widths of a fixed-width file.      *)
(* A line is a sequence of characters; " " stands for the whitespace       *)
(* characters and "x" for the others. Indices are zero-based as in the     *)
(* source.                                                                 *)
(***************************************************************************)
LineChars == {" ", "x"}

\* char::is_whitespace
is_whitespace(c) == c = " "

\* `line.chars().enumerate().filter_map(|(i, c)| c.is_whitespace().then_some(i))`
line_spaces(line) == {i - 1 : i \in {j \in 1 .. Len(line) : is_whitespace(line[j])}}

\* the closure of `.map(|line| ...)`: (length, spaces)
line_info(line) == [len |-> Len(line), spaces |-> line_spaces(line)]

\* a reduce closure that keeps the length of the later line
reduce_last_len(a, b) == [len |-> b.len, spaces |-> a.spaces \cap b.spaces]

\* the closure of `.reduce(|(la, sa), (lb, sb)| ...)`
reduce_step(a, b) == [len |-> Max(a.len, b.len), spaces |-> a.spaces \cap b.spaces]

\* Itertools::sorted over a set of indices
RECURSIVE sorted(_)
sorted(S) ==
    IF S = {} THEN <<>>
    ELSE LET m == CHOOSE x \in S : \A y \in S : x <= y
         IN  <<m>> \o sorted(S \ {m})

\* `idx_set.into_iter().chain(once(len)).sorted().collect_vec()`
chain_len_sorted(len, idx_set) == sorted(idx_set \cup {len})

\* the loop of infer_widths with `start = idx` in place of `start = idx + 1`
RECURSIVE infer_widths_loop_at_boundary(_, _, _, _)
infer_widths_loop_at_boundary(space_indices, i, start, indices) ==
    IF i > Len(space_indices) THEN indices
    ELSE LET idx == space_indices[i]
         IN  IF i + 1 <= Len(space_indices)
             THEN IF space_indices[i + 1] - idx > 1
                  THEN infer_widths_loop_at_boundary(space_indices, i + 1, idx,
                                                     Append(indices, idx - start))
                  ELSE infer_widths_loop_at_boundary(space_indices, i + 1, start, indices)
             ELSE infer_widths_loop_at_boundary(space_indices, i + 1, start,
                                                Append(indices, idx - start))

\* the loop of infer_widths from its i-th iteration (one-based here)
RECURSIVE infer_widths_loop(_, _, _, _)
infer_widths_loop(space_indices, i, start, indices) ==
    IF i > Len(space_indices) THEN indices
    ELSE LET idx == space_indices[i]
         IN  IF i + 1 <= Len(space_indices)
             THEN IF space_indices[i + 1] - idx > 1
                  THEN infer_widths_loop(space_indices, i + 1, idx + 1,
                                         Append(indices, idx - start))
                  ELSE infer_widths_loop(space_indices, i + 1, start, indices)
             ELSE infer_widths_loop(space_indices, i + 1, start,
                                    Append(indices, idx - start))

\* infer_widths that leaves the boundary character in the next column
infer_widths_at_boundary(space_indices) ==
    infer_widths_loop_at_boundary(space_indices, 1, 0, <<>>)

\* fn infer_widths
infer_widths(space_indices) == infer_widths_loop(space_indices, 1, 0, <<>>)

(***************************************************************************)
(* misc::polars_ext: schema inference. A cell is null, a text or a typed   *)
(* value held by its physical number (a Float64 in tenths, a Boolean as 0  *)
(* or 1, a Date, Time or Datetime as its count of units).                  *)
(***************************************************************************)
NullCell == [null |-> TRUE, s |-> "", n |-> 0]

TextCell(s) == [null |-> FALSE, s |-> s, n |-> 0]

ValCell(n) == [null |-> FALSE, s |-> "", n |-> n]

Series(name, dtype, values) == [name |-> name, dtype |-> dtype, values |-> values]

\* the candidate types of type_infered_series, in its order
Candidates == <<"Int64", "Float64", "Boolean", "Date", "Time", "Datetime">>

\* what parsing a text as a dtype gives (polars, non-strict: null on failure)
parse(s, dtype) ==
    CASE dtype = "Int64" /\ s = "1" -> ValCell(1)
      [] dtype = "Float64" /\ s = "1" -> ValCell(10)
      [] dtype = "Float64" /\ s = "1.5" -> ValCell(15)
      [] dtype = "Boolean" /\ s = "true" -> ValCell(1)
      [] dtype = "Date" /\ s = "2022-1-1" -> ValCell(1)
      [] dtype = "Time" /\ s = "01:02:03" -> ValCell(2)
      [] dtype = "Datetime" /\ s = "2022-1-1 01:02:03" -> ValCell(3)
      [] OTHER -> NullCell

Temporal == {"Date", "Time", "Datetime"}

\* casts between typed columns that polars refuses
Unsupported(from, to) ==
    \/ from = "Boolean" /\ to \in Temporal
    \/ from \in Temporal /\ to = "Boolean"
    \/ from = "Date" /\ to = "Time"
    \/ from = "Time" /\ to \in {"Date", "Datetime"}

\* the non-strict cast of one typed value
cast_value(n, from, to) ==
    CASE from = to -> n
      [] to = "Boolean" -> IF n # 0 THEN 1 ELSE 0
      [] from = "Float64" -> n \div 10
      [] to = "Float64" -> n * 10
      [] OTHER -> n

CastOk(series) == [ok |-> TRUE, series |-> series]

CastErr(series) == [ok |-> FALSE, series |-> series]

\* Series::cast(dtype); str_bool tells whether the polars of the build casts
\* strings to booleans or refuses to
cast(series, dtype, str_bool) ==
    IF series.dtype = "String"
    THEN IF dtype = "Boolean" /\ ~str_bool THEN CastErr(series)
         ELSE CastOk(Series(series.name, dtype,
                  [i \in 1 .. Len(series.values) |->
                      IF series.values[i].null THEN NullCell
                      ELSE parse(series.values[i].s, dtype)]))
    ELSE IF Unsupported(series.dtype, dtype) THEN CastErr(series)
    ELSE CastOk(Series(series.name, dtype,
             [i \in 1 .. Len(series.values) |->
                 IF series.values[i].null THEN NullCell
                 ELSE ValCell(cast_value(series.values[i].n, series.dtype, dtype))]))

\* Series::is_null
is_null(series) == [i \in 1 .. Len(series.values) |-> series.values[i].null]

NoSeries == [some |-> FALSE, series |-> Series("", "String", <<>>)]

SomeSeries(series) == [some |-> TRUE, series |-> series]

\* find that takes the first cast that succeeds, whatever became null
RECURSIVE find_cast_any(_, _, _, _)
find_cast_any(series, dtypes, k, str_bool) ==
    IF k > Len(dtypes) THEN NoSeries
    ELSE LET c == cast(series, dtypes[k], str_bool)
         IN  IF c.ok THEN SomeSeries(c.series)
             ELSE find_cast_any(series, dtypes, k + 1, str_bool)

\* `.iter().filter_map(|dtype| series.cast(dtype).ok()).find(|s| ..)` from
\* the k-th candidate on
RECURSIVE find_cast(_, _, _, _)
find_cast(series, dtypes, k, str_bool) ==
    IF k > Len(dtypes) THEN NoSeries
    ELSE LET c == cast(series, dtypes[k], str_bool)
         IN  IF c.ok /\ is_null(series) = is_null(c.series) THEN SomeSeries(c.series)
             ELSE find_cast(series, dtypes, k + 1, str_bool)

\* type_infered_series without the comparison of the null positions
type_infered_series_any(series, str_bool) == find_cast_any(series, Candidates, 1, str_bool)

\* fn type_infered_series
type_infered_series(series, str_bool) == find_cast(series, Candidates, 1, str_bool)

\* SafeInferSchema::safe_infer_schema for DataFrame
safe_infer_schema(df, str_bool) ==
    [i \in 1 .. Len(df) |->
        LET r == type_infered_series(df[i], str_bool)
        IN  IF r.some THEN r.series ELSE df[i]]

(***************************************************************************)
(* misc::polars_ext: fuzzy comparison of a cell (AnyValue) with a query.   *)
(* Texts are sequences of characters.                                      *)
(***************************************************************************)
NullValue == [kind |-> "Null", text |-> <<>>, n |-> 0]

StringValue(text) == [kind |-> "String", text |-> text, n |-> 0]

IntValue(n) == [kind |-> "Int64", text |-> <<>>, n |-> n]

DecimalDigits == <<"0", "1", "2", "3", "4", "5", "6", "7", "8", "9">>

\* ToString of an unsigned integer
RECURSIVE to_string(_)
to_string(n) ==
    IF n < 10 THEN <<DecimalDigits[n + 1]>>
    ELSE Append(to_string(n \div 10), DecimalDigits[(n % 10) + 1])

\* IntoString::into_multi_line
into_multi_line(value) ==
    CASE value.kind = "Null" -> <<>>
      [] value.kind = "String" -> value.text
      [] OTHER -> to_string(value.n)

\* the scan of HasSubsequence::has_subsequence from the i-th character of
\* the text and the j-th of the query: each character of the query is
\* matched at its first occurrence; budget is the number of characters the
\* scan may still pass over without a match, or -1 when it is not limited
RECURSIVE has_subsequence_from(_, _, _, _, _)
has_subsequence_from(text, i, other, j, budget) ==
    IF j > Len(other) THEN TRUE
    ELSE IF i > Len(text) \/ budget = 0 THEN FALSE
    ELSE IF text[i] = other[j]
         THEN has_subsequence_from(text, i + 1, other, j + 1, budget)
         ELSE has_subsequence_from(text, i + 1, other, j,
                                   IF budget > 0 THEN budget - 1 ELSE budget)

\* HasSubsequence::has_subsequence(other, max): the answers it can give. The
\* scan is the ordered-subsequence test; where the budget cuts a scan that
\* would have succeeded, it may give up or go on
has_subsequence(text, other, max) ==
    {has_subsequence_from(text, 1, other, 1, max),
     has_subsequence_from(text, 1, other, 1, -1)}

\* FuzzyCmp for AnyValue::fuzzy_cmp: the answers it can give
fuzzy_cmp(value, other) ==
    CASE value.kind = "Null" -> {FALSE}
      [] value.kind = "String" -> has_subsequence(value.text, other, Len(other))
      [] OTHER -> has_subsequence(into_multi_line(value), other, Len(other))

(***************************************************************************)
(* Dataset transforms: the arms of App::invoke that hand a query to the    *)
(* engine, with frames that carry their columns and rows and an engine     *)
(* that answers from the tables registered with it.  A query is the table  *)
(* it reads (`from`), what it does (`op`) and its argument.                *)
(***************************************************************************)
XCols == {"a", "b"}

TableNames == {"df", "t"}

\* the text of a frame: its column names and its row keys
ColsText(cols) ==
    (IF "a" \in cols THEN "a" ELSE "") \o (IF "b" \in cols THEN "b" ELSE "")

RECURSIVE RowsText(_)
RowsText(rows) ==
    IF rows = <<>> THEN ""
    ELSE DecimalDigits[Head(rows) + 1] \o RowsText(Tail(rows))

\* a frame with the given columns and rows (row keys, in display order)
XFrame(cols, rows) ==
    [contents |-> ColsText(cols) \o ":" \o RowsText(rows), height |-> Len(rows),
     cols |-> cols, rows |-> rows]

\* the argument of a query: the columns it names and how they are used
XArg(cols, how) == [cols |-> cols, how |-> how]

\* the arguments tried with each kind of query, ill-formed ones among them
XArgs(op) ==
    CASE op = "select" -> {XArg(c, "") : c \in SUBSET XCols}
      [] op = "order" -> {XArg({c}, h) : c \in XCols, h \in {"asc", "desc", "odd"}}
      [] op = "where" -> {XArg({c}, h) : c \in XCols, h \in {"odd", "low"}}

Query(op, from, arg) == [op |-> op, from |-> from, arg |-> arg]

\* format!("SELECT {} FROM df", select)
SelectFromDf(arg) == Query("select", "df", arg)

\* format!("SELECT * FROM df ORDER BY {}", order)
OrderDf(arg) == Query("order", "df", arg)

\* format!("SELECT * FROM df where {}", filter)
FilterDf(arg) == Query("where", "df", arg)

\* SqlBackend::new(): no table registered
SqlBackendNew == [default |-> NoFrame, tables |-> [n \in TableNames |-> NoFrame]]

\* SqlBackend::register(name, data_frame, path)
register(back, name, df) == [back EXCEPT !.tables[name] = df]

Reverse(s) == [i \in 1 .. Len(s) |-> s[Len(s) + 1 - i]]

RECURSIVE Keep(_, _)
Keep(rows, how) ==
    IF rows = <<>> THEN <<>>
    ELSE LET r == Head(rows)
             keep == IF how = "odd" THEN r % 2 = 1 ELSE r < 2
         IN  (IF keep THEN <<r>> ELSE <<>>) \o Keep(Tail(rows), how)

\* the engine's answer to a query over the table it reads
apply_query(q, f) ==
    LET named == q.arg.cols # {} /\ q.arg.cols \subseteq f.cols
        rowset == {f.rows[i] : i \in 1 .. Len(f.rows)}
    IN  CASE q.op = "select" /\ named ->
               [ok |-> TRUE, df |-> XFrame(q.arg.cols, f.rows)]
          [] q.op = "order" /\ named /\ q.arg.how = "asc" ->
               [ok |-> TRUE, df |-> XFrame(f.cols, sorted(rowset))]
          [] q.op = "order" /\ named /\ q.arg.how = "desc" ->
               [ok |-> TRUE, df |-> XFrame(f.cols, Reverse(sorted(rowset)))]
          [] q.op = "where" /\ named /\ q.arg.how \in {"odd", "low"} ->
               [ok |-> TRUE, df |-> XFrame(f.cols, Keep(f.rows, q.arg.how))]
          [] OTHER -> [ok |-> FALSE, df |-> NoFrame]

\* SqlBackend::execute(query): an error when the table is not registered
\* with this backend or the engine rejects the query
execute_query(back, q) ==
    IF back.tables[q.from] = NoFrame
    THEN [ok |-> FALSE, df |-> NoFrame]
    ELSE apply_query(q, back.tables[q.from])

\* the transform arms with the session's default frame registered as "df"
invoke_query_on_default(app, session, action) ==
    LET back == register(SqlBackendNew, "df", session.default)
        k == action.kind
    IN  CASE k = "SqlQuery" ->
               SetFromQuery(app, {execute_query(session, action.s)})
          [] k = "TabularReset" -> invoke(app, session, action, 0)
          [] k = "TabularSelect" ->
               SetFromQuery(app, {execute_query(back, SelectFromDf(action.s))})
          [] k = "TabularOrder" ->
               SetFromQuery(app, {execute_query(back, OrderDf(action.s))})
          [] k = "TabularFilter" ->
               SetFromQuery(app, {execute_query(back, FilterDf(action.s))})

\* App::invoke, arms SqlQuery, TabularReset, TabularSelect, TabularOrder and
\* TabularFilter; session is self.sql
invoke_query(app, session, action) ==
    LET back == register(SqlBackendNew, "df", app.tabular.data_frame)
        k == action.kind
    IN  CASE k = "SqlQuery" ->
               SetFromQuery(app, {execute_query(session, action.s)})
          [] k = "TabularReset" -> invoke(app, session, action, 0)
          [] k = "TabularSelect" ->
               SetFromQuery(app, {execute_query(back, SelectFromDf(action.s))})
          [] k = "TabularOrder" ->
               SetFromQuery(app, {execute_query(back, OrderDf(action.s))})
          [] k = "TabularFilter" ->
               SetFromQuery(app, {execute_query(back, FilterDf(action.s))})

(***************************************************************************)
(* tui::field_info_table: the schema view keeps the offset of its table    *)
(* within the rows that fill the area below the header.                    *)
(***************************************************************************)
\* the clamp of render taken against the whole area height
render_offset_whole_area(offset, len, height) ==
    Min(offset, saturating_sub(len, height))

\* FieldInfoTable::render: the offset assigned before the table is drawn;
\* len is table_schema.len(), height is area.height
render_offset(offset, len, height) ==
    Min(offset, saturating_sub(len, saturating_sub(height, 2)))

\* ratatui TableState: the first row shown and the selected row, an
\* Option<usize> kept as the empty set or a set of one index
TableState(offset, selected) == [offset |-> offset, selected |-> selected]

\* TableState::select: dropping the selection resets the offset
table_state_select(state, index) ==
    TableState(IF index = {} THEN 0 ELSE state.offset, index)

\* Block::inner of the block render builds: the borders LEFT and RIGHT take
\* one column each, the border BOTTOM with its title takes the last line
block_inner(width, height) ==
    [width |-> saturating_sub(width, 2), height |-> saturating_sub(height, 1)]

\* Table::visible_rows, "scroll down until the selected row is visible":
\* every row is one line high, height is the lines taken by start .. end - 1
RECURSIVE scroll_to_selected(_, _, _, _, _)
scroll_to_selected(start, end, height, selected, area_height) ==
    IF selected >= end
    THEN LET taken == height + 1
             over == saturating_sub(taken, area_height)
         IN scroll_to_selected(start + over, end + 1, taken - over, selected,
                               area_height)
    ELSE start

\* Table::visible_rows (its start index) for len >= 1 rows of one line each
visible_rows(state, len, area_height) ==
    LET last_row == saturating_sub(len, 1)
        start == IF state.selected = {} THEN Min(state.offset, last_row)
                 ELSE Min(Min(state.offset, last_row),
                          CHOOSE s \in state.selected : TRUE)
        shown == Min(area_height, len - start)
    IN IF state.selected = {} THEN start
       ELSE scroll_to_selected(start, start + shown, shown,
                               Min(CHOOSE s \in state.selected : TRUE, last_row),
                               area_height)

\* Table::render(area, buf, &mut table_state) of a table with a header line
\* and len rows inside the block: nothing is touched when the block leaves no
\* room; a selection past the last row is clamped, dropped when there is no
\* row; the offset becomes the first row drawn
table_render(state, len, width, height) ==
    LET table_area == block_inner(width, height)
        clamped == IF \E s \in state.selected : s >= len
                   THEN table_state_select(state, {saturating_sub(len, 1)})
                   ELSE state
        rows_height == saturating_sub(table_area.height, 1)
    IN IF table_area.width = 0 \/ table_area.height = 0 THEN state
       ELSE IF len = 0 THEN table_state_select(clamped, {})
       ELSE TableState(visible_rows(clamped, len, rows_height), clamped.selected)

\* FieldInfoTable::render: the table state after the render, the clamp of
\* the offset first and the draw of the table after it
field_info_render(state, len, width, height) ==
    table_render(TableState(render_offset(state.offset, len, height), state.selected),
                 len, width, height)

(***************************************************************************)
(* State.                                                                  *)
(***************************************************************************)
VARIABLES
    tabular,      \* App.tabular
    status_bar,   \* App.status_bar (its state)
    sql,          \* App.sql: [default: the default frame or NoFrame]
    running,      \* App.running
    last,         \* what the event loop did last: [op, arm, action, res, err],
                  \* and the context the open prompt was opened from
    kh,           \* KeyHandler::action in progress: [start, context, event, pc, act, steps]
    fwf,          \* read_to_data_frame inferring widths: [pc, lines, i, some, len,
                  \* spaces, indices, widths]
    schema,       \* a frame under safe_infer_schema: [runs, input, once, df, str_bool]
    fuzzy,        \* a call of fuzzy_cmp: [pc, value, other, result]
    field_info    \* FieldInfoTableState.table_state and, right after a
                  \* render, what the render was given: [pc, offset, selected,
                  \* before, before_selected, len, height, width]

vars == <<tabular, status_bar, sql, running, last, kh, fwf, schema, fuzzy, field_info>>

libVars == <<fwf, schema, fuzzy, field_info>>

\* no file being read
FwfIdle == [pc |-> "idle", lines |-> <<>>, i |-> 0, some |-> FALSE, len |-> 0,
            spaces |-> {}, indices |-> <<>>, widths |-> <<>>]

\* no frame loaded
SchemaIdle == [runs |-> 0, input |-> <<>>, once |-> <<>>, df |-> <<>>, str_bool |-> TRUE]

\* no comparison called
FuzzyIdle == [pc |-> "idle", value |-> NullValue, other |-> <<>>, result |-> FALSE]

\* FieldInfoTableState::default(), never rendered
FieldInfoIdle == [pc |-> "idle", offset |-> 0, selected |-> {}, before |-> 0,
                  before_selected |-> {}, len |-> 0, height |-> 0, width |-> 0]

LibIdle ==
    fwf = FwfIdle /\ schema = SchemaIdle /\ fuzzy = FuzzyIdle /\ field_info = FieldInfoIdle

appVars == <<tabular, status_bar, sql, running, last>>

\* no key resolution in progress
KhIdle == [start |-> "Empty", context |-> "Empty", event |-> Event("Null", "", {}),
           pc |-> "idle", act |-> KNoAction, steps |-> 0]

TheApp == [tabular |-> tabular, status_bar |-> status_bar, running |-> running]

Last(op, arm, action, res, err) ==
    [op |-> op, arm |-> arm, action |-> action, res |-> res, err |-> err,
     from |-> "None"]

\* the context in which the prompt shown by `after`, or closed by the step
\* from `before` to `after`, was opened; "None" when there is no such prompt
PromptFrom(before, from, after) ==
    IF before.status_bar.kind = "Command" THEN from
    ELSE IF after.kind = "Command" THEN infer_state(before)
    ELSE "None"

\* App::new over Tabular::new(df), a StatusBar showing stats
InitApp(heights) ==
    /\ \E h \in heights :
         /\ tabular = TabularNew(DataFrame("default", h))
         /\ sql \in {[default |-> NoFrame], [default |-> DataFrame("default", h)]}
    /\ status_bar = StatusNormal
    /\ running = TRUE
    /\ last = Last("new", "", NoAction, "Ok", "")

\* the event loop takes events while the app runs and has not panicked
Live == running /\ last.res # "Panic"

\* one key event through App::handle_key_event, taking the given arm
KeyEvent(arm, key, bound, maxRows) ==
    /\ Live
    /\ match_arm(infer_state(TheApp), key) = arm
    /\ \E o \in handle_key_event(TheApp, sql, key, bound, maxRows) :
         /\ tabular' = o.app.tabular
         /\ status_bar' = o.app.status_bar
         /\ running' = o.app.running
         /\ last' = [Last("key", arm, o.action, o.res, o.err) EXCEPT
                         !.from = PromptFrom(TheApp, last.from, o.app.status_bar)]
    /\ UNCHANGED <<sql, kh, libVars>>

KeyEsc == \E key \in AppKeys : KeyEvent("esc", key, NoAction, MaxRows)

KeyEnter == \E key \in AppKeys : KeyEvent("commit", key, NoAction, MaxRows)

KeyInput == \E key \in AppKeys : KeyEvent("input", key, NoAction, MaxRows)

KeyColon == \E key \in AppKeys : KeyEvent("colon", key, NoAction, MaxRows)

\* every key of this arm is handled alike: only what it is bound to matters
KeyBound ==
    \E key \in {Key("Tab", "")}, bound \in AppActions \cup {NoAction} :
        KeyEvent("bound", key, bound, MaxRows)

\* App::draw with a table area of the given height
DrawArea(maxHeight) ==
    /\ Live
    /\ \E height \in 0 .. maxHeight, lines \in 0 .. MaxLines :
         tabular' = render(tabular, height, lines)
    /\ last' = [Last("draw", "", NoAction, "Ok", "") EXCEPT
                    !.from = PromptFrom(TheApp, last.from, status_bar)]
    /\ UNCHANGED <<status_bar, sql, running, kh, libVars>>

Draw == DrawArea(MaxHeight)

Init == InitApp({MaxRows}) /\ kh = KhIdle /\ LibIdle

Next == KeyEsc \/ KeyEnter \/ KeyInput \/ KeyColon \/ KeyBound \/ Draw

Spec == Init /\ [][Next]_vars

(***************************************************************************)
(* Navigation on tall tables: the arm of handle_key_event that invokes a  *)
(* bound action, restricted to the navigation actions, and App::draw.      *)
(***************************************************************************)
NavKinds ==
    {"TabularGoto", "TabularGotoFirst", "TabularGotoLast", "TabularGotoRandom",
     "TabularGoUp", "TabularGoUpHalfPage", "TabularGoUpFullPage",
     "TabularGoDown", "TabularGoDownHalfPage", "TabularGoDownFullPage"}

NavInit == InitApp(0 .. NavRows) /\ kh = KhIdle /\ LibIdle

NavKey ==
    \E bound \in {a \in AppActions : a.kind \in NavKinds} :
        KeyEvent("bound", Key("Tab", ""), bound, NavRows)

NavDraw == DrawArea(NavHeight)

NavNext == NavKey \/ NavDraw

NavSpec == NavInit /\ [][NavNext]_vars

(***************************************************************************)
(* KeyHandler::action as a loop: one step per iteration.                   *)
(***************************************************************************)
\* a call KeyHandler::action(context, event)
KeyInit ==
    /\ \E c \in AppContexts, e \in KeyEvents :
         kh = [start |-> c, context |-> c, event |-> e, pc |-> "loop",
               act |-> KNoAction, steps |-> 0]
    /\ InitApp({0})
    /\ sql = [default |-> NoFrame]
    /\ LibIdle

\* `if let Some(act) = self.map.get(&context).and_then(|kbl| kbl.find(event))`
KeyFound ==
    /\ kh.pc = "loop"
    /\ find(kh.context, kh.event).some
    /\ kh' = [kh EXCEPT !.pc = "done", !.act = find(kh.context, kh.event).action]
    /\ UNCHANGED <<appVars, libVars>>

\* `if let Some(parent) = context.parent() { context = parent }`
KeyToParent ==
    /\ kh.pc = "loop"
    /\ ~find(kh.context, kh.event).some
    /\ parent(kh.context) # ""
    /\ kh' = [kh EXCEPT !.context = parent(kh.context), !.steps = @ + 1]
    /\ UNCHANGED <<appVars, libVars>>

\* `else { return AppAction::NoAction }`
KeyNoAction ==
    /\ kh.pc = "loop"
    /\ ~find(kh.context, kh.event).some
    /\ parent(kh.context) = ""
    /\ kh' = [kh EXCEPT !.pc = "done", !.act = KNoAction]
    /\ UNCHANGED <<appVars, libVars>>

KeyNext == KeyFound \/ KeyToParent \/ KeyNoAction

KeySpec == KeyInit /\ [][KeyNext]_vars

\* the loop runs until it returns
KeyFairSpec == KeySpec /\ WF_vars(KeyNext)

(***************************************************************************)
(* Width inference of read_to_data_frame (empty width_str): the lines are  *)
(* folded one by one, then infer_widths runs on the sorted indices.        *)
(***************************************************************************)
\* the app is not running while a file is read
AppIdle == InitApp({0}) /\ sql = [default |-> NoFrame] /\ kh = KhIdle

\* the line of length n whose whitespace is at the indices in ws
LineOf(n, ws) == [i \in 1 .. n |-> IF i - 1 \in ws THEN " " ELSE "x"]

Lines(maxLen) == UNION {[1 .. n -> LineChars] : n \in 0 .. maxLen}

RECURSIVE Files(_, _)
Files(maxLen, maxLines) ==
    IF maxLines = 0 THEN {<<>>}
    ELSE LET shorter == Files(maxLen, maxLines - 1)
         IN  shorter \cup {Append(f, l) : f \in shorter, l \in Lines(maxLen)}

\* the columns every line of a padded file has whitespace in
PaddedSpaces == {3, 4, 8}

\* two lines of len characters whose shared whitespace is PaddedSpaces
PaddedFiles(len) ==
    LET free == (0 .. len - 1) \ PaddedSpaces
    IN  UNION {{<<LineOf(len, PaddedSpaces \cup a),
                   LineOf(len, PaddedSpaces \cup b)>> : b \in SUBSET (free \ a)}
                 : a \in SUBSET free}

FwfFiles(maxLen, maxLines, paddedLen) == Files(maxLen, maxLines) \cup PaddedFiles(paddedLen)

\* `read_to_string(file)?.lines()`
FwfInit ==
    /\ AppIdle
    /\ schema = SchemaIdle
    /\ fuzzy = FuzzyIdle
    /\ field_info = FieldInfoIdle
    /\ \E f \in FwfFiles(FwfMaxLen, FwfMaxLines, PaddedLen) : fwf = [FwfIdle EXCEPT !.pc = "reduce", !.lines = f]

\* one step of `.map(..).reduce(..)`
FwfReduce ==
    /\ fwf.pc = "reduce"
    /\ fwf.i < Len(fwf.lines)
    /\ LET b == line_info(fwf.lines[fwf.i + 1])
           acc == IF fwf.some
                  THEN reduce_step([len |-> fwf.len, spaces |-> fwf.spaces], b)
                  ELSE b
       IN  fwf' = [fwf EXCEPT !.i = fwf.i + 1, !.some = TRUE,
                              !.len = acc.len, !.spaces = acc.spaces]
    /\ UNCHANGED <<appVars, kh, schema, fuzzy, field_info>>

\* `.map(|(len, idx_set)| ..).unwrap_or_default()` and `infer_widths(..)`
FwfInfer ==
    /\ fwf.pc = "reduce"
    /\ fwf.i = Len(fwf.lines)
    /\ LET common_space_indices ==
               IF fwf.some THEN chain_len_sorted(fwf.len, fwf.spaces) ELSE <<>>
       IN  fwf' = [fwf EXCEPT !.pc = "done",
                              !.indices = common_space_indices,
                              !.widths = infer_widths(common_space_indices)]
    /\ UNCHANGED <<appVars, kh, schema, fuzzy, field_info>>

FwfNext == FwfReduce \/ FwfInfer

FwfSpec == FwfInit /\ [][FwfNext]_vars

(***************************************************************************)
(* Schema inference run on a loaded frame, and run again on its result.    *)
(***************************************************************************)
Texts == {"1", "1.5", "true", "2022-1-1", "01:02:03", "2022-1-1 01:02:03", "a"}

\* the non-null cells a column of the dtype can hold
CellsOf(dtype) ==
    CASE dtype = "String" -> {TextCell(s) : s \in Texts}
      [] dtype = "Int64" -> {ValCell(1), ValCell(2)}
      [] dtype = "Float64" -> {ValCell(10), ValCell(15)}
      [] dtype = "Boolean" -> {ValCell(0), ValCell(1)}
      [] dtype = "Date" -> {ValCell(1)}
      [] dtype = "Time" -> {ValCell(2)}
      [] dtype = "Datetime" -> {ValCell(3)}

DataTypes == {"String", "Int64", "Float64", "Boolean", "Date", "Time", "Datetime"}

\* the columns of h rows
Columns(name, h) ==
    UNION {{Series(name, dtype, values) :
               values \in [1 .. h -> CellsOf(dtype) \cup {NullCell}]} : dtype \in DataTypes}

\* frames of one column of up to maxColLen rows and of two shorter columns
Frames(maxColLen) ==
    {<<>>}
    \cup UNION {{<<c>> : c \in Columns("a", h)} : h \in 0 .. maxColLen}
    \cup UNION {{<<c, d>> : c \in Columns("a", h), d \in Columns("b", h)}
                  : h \in 0 .. maxColLen - 1}

InferInit ==
    /\ AppIdle
    /\ fwf = FwfIdle
    /\ fuzzy = FuzzyIdle
    /\ field_info = FieldInfoIdle
    /\ \E t \in Frames(MaxColLen), b \in BOOLEAN :
         schema = [runs |-> 0, input |-> t, once |-> t, df |-> t, str_bool |-> b]

\* df.safe_infer_schema()
InferRun ==
    /\ schema.runs < 2
    /\ LET out == safe_infer_schema(schema.df, schema.str_bool)
       IN  schema' = [schema EXCEPT !.runs = schema.runs + 1,
                                    !.df = out,
                                    !.once = IF schema.runs = 0 THEN out ELSE schema.once]
    /\ UNCHANGED <<appVars, kh, fwf, fuzzy, field_info>>

InferNext == InferRun

InferSpec == InferInit /\ [][InferNext]_vars

(***************************************************************************)
(* A call of fuzzy_cmp on a cell and a query.                              *)
(***************************************************************************)
FuzzyChars == {"a", "b", "c", "1"}

TextsUpTo(maxLen) == UNION {[1 .. n -> FuzzyChars] : n \in 0 .. maxLen}

\* the cells compared: null, strings and integers
Values(maxTextLen, maxCellInt) ==
    {NullValue}
    \cup {StringValue(t) : t \in TextsUpTo(maxTextLen)}
    \cup {IntValue(n) : n \in 0 .. maxCellInt}

FuzzyInit ==
    /\ AppIdle
    /\ fwf = FwfIdle
    /\ schema = SchemaIdle
    /\ field_info = FieldInfoIdle
    /\ \E v \in Values(MaxTextLen, MaxCellInt), q \in TextsUpTo(MaxQueryLen) :
         fuzzy = [pc |-> "call", value |-> v, other |-> q, result |-> FALSE]

\* value.fuzzy_cmp(other)
FuzzyCmpCall ==
    /\ fuzzy.pc = "call"
    /\ \E result \in fuzzy_cmp(fuzzy.value, fuzzy.other) :
         fuzzy' = [fuzzy EXCEPT !.pc = "done", !.result = result]
    /\ UNCHANGED <<appVars, kh, fwf, schema, field_info>>

FuzzyNext == FuzzyCmpCall

FuzzySpec == FuzzyInit /\ [][FuzzyNext]_vars

(***************************************************************************)
(* Dataset transforms as key-bound actions over a session whose tables are *)
(* known.                                                                  *)
(***************************************************************************)
\* the frames a session is started on: every column, rows n .. 1
StartFrames(maxRows) ==
    {XFrame(XCols, Reverse(sorted(1 .. n))) : n \in 0 .. maxRows}

\* the session: the frame on display registered as table "t", a default
\* frame or none, and possibly a table that is itself named "df"
XformInit ==
    /\ \E d \in StartFrames(XMaxRows) :
         /\ tabular = TabularNew(d)
         /\ \E def \in {NoFrame, d}, own \in {NoFrame, XFrame({"b"}, <<1>>)} :
              sql = [register(register(SqlBackendNew, "t", d), "df", own)
                        EXCEPT !.default = def]
    /\ status_bar = StatusNormal
    /\ running = TRUE
    /\ last = Last("new", "", NoAction, "Ok", "")
    /\ kh = KhIdle
    /\ LibIdle

\* a key bound to the action is pressed in a normal state
XformKey(action) ==
    /\ Live
    /\ \E o \in invoke_query(TheApp, sql, action) :
         /\ tabular' = o.app.tabular
         /\ status_bar' = o.app.status_bar
         /\ running' = o.app.running
         /\ last' = Last("key", "bound", action, o.res, o.err)
    /\ UNCHANGED <<sql, kh, libVars>>

\* the actions bound to keys: every transform and every query tried
TransformActions ==
    {Action("TabularSelect", 0, arg) : arg \in XArgs("select")}
    \cup {Action("TabularOrder", 0, arg) : arg \in XArgs("order")}
    \cup {Action("TabularFilter", 0, arg) : arg \in XArgs("where")}

QueryActions ==
    UNION {{Action("SqlQuery", 0, Query(op, from, arg)) : arg \in XArgs(op)} :
              op \in {"select", "order", "where"}, from \in TableNames}

XformTransform == \E action \in TransformActions : XformKey(action)

XformQuery == \E action \in QueryActions : XformKey(action)

XformReset == \E action \in {a \in AppActions : a.kind = "TabularReset"} : XformKey(action)

XformNext == XformTransform \/ XformQuery \/ XformReset

XformSpec == XformInit /\ [][XformNext]_vars

(***************************************************************************)
(* The schema view: the table state is written through table_state_mut     *)
(* between renders, and each render is given the schema and the area of    *)
(* the frame.                                                              *)
(***************************************************************************)
FieldInfoInit ==
    /\ AppIdle
    /\ fwf = FwfIdle
    /\ schema = SchemaIdle
    /\ fuzzy = FuzzyIdle
    /\ field_info = FieldInfoIdle

\* `*state.table_state_mut().offset_mut() = offset`
FieldInfoSetOffset ==
    /\ \E offset \in 0 .. MaxFieldOffset :
         field_info' = [FieldInfoIdle EXCEPT !.pc = "scrolled",
                                             !.offset = offset,
                                             !.selected = field_info.selected]
    /\ UNCHANGED <<appVars, kh, fwf, schema, fuzzy>>

\* the indices table_state_mut().select(..) is called with
FieldSelections == {{}} \cup {{i} : i \in 0 .. MaxFieldSelect}

\* `state.table_state_mut().select(index)`
FieldInfoSelect ==
    /\ \E index \in FieldSelections :
         LET state == table_state_select(field_info, index)
         IN field_info' = [FieldInfoIdle EXCEPT !.pc = "selected",
                                             !.offset = state.offset,
                                             !.selected = state.selected]
    /\ UNCHANGED <<appVars, kh, fwf, schema, fuzzy>>

\* FieldInfoTable::new(schema).render(area, buf, state)
FieldInfoRender ==
    /\ \E len \in 0 .. MaxFields, height \in 0 .. MaxAreaHeight,
          width \in 0 .. MaxAreaWidth :
         LET state == field_info_render(field_info, len, width, height)
         IN field_info' = [pc |-> "rendered",
                           offset |-> state.offset,
                           selected |-> state.selected,
                           before |-> field_info.offset,
                           before_selected |-> field_info.selected,
                           len |-> len,
                           height |-> height,
                           width |-> width]
    /\ UNCHANGED <<appVars, kh, fwf, schema, fuzzy>>

FieldInfoNext == FieldInfoSetOffset \/ FieldInfoSelect \/ FieldInfoRender

FieldInfoSpec == FieldInfoInit /\ [][FieldInfoNext]_vars

(***************************************************************************)
(* Properties of the viewport (Tabular) and of App::invoke.                *)
(***************************************************************************)
total_rows == tabular.table_values.height

\* offset <= selected <= offset + visible_rows - 1 whenever visible_rows > 0
WindowHoldsSelection ==
    tabular.rendered_rows > 0 =>
        /\ tabular.offset <= tabular.select
        /\ tabular.select <= tabular.offset + tabular.rendered_rows - 1

\* selected < total_rows whenever total_rows > 0
SelectionInRange == total_rows > 0 => tabular.select < total_rows

\* C1 as stated: after every operation (navigation, dataset replacement,
\* render) the window holds the selection and the selection is in range.
C1_AfterEveryOperation == WindowHoldsSelection /\ SelectionInRange

\* C1 amended: the selection is in range after every operation, and the
\* window holds the selection after every render of the table view (the
\* offset is only re-clamped by render, not by the navigation actions).
C1_AfterEveryRender ==
    /\ SelectionInRange
    /\ (last.op = "draw" /\ ~tabular.scroll.some) => WindowHoldsSelection

\* a table-view render that had to move the window down to the selection
C1_Witness ==
    /\ last.op = "draw"
    /\ ~tabular.scroll.some
    /\ tabular.rendered_rows > 0
    /\ tabular.offset > 0
    /\ tabular.select = tabular.offset + tabular.rendered_rows - 1

ReplaceKinds ==
    {"SqlQuery", "SqlBackendTable", "TabularReset", "TabularSelect",
     "TabularOrder", "TabularFilter", "Help"}

\* C2: every successful dataset-replacing action leaves
\* (selected, offset) = (0, 0), whatever the state was before it.
C2_ReplaceResets ==
    [][(last'.op = "key" /\ last'.action.kind \in ReplaceKinds /\ last'.res = "Ok")
          => (tabular'.select = 0 /\ tabular'.offset = 0)]_vars

\* a filter replaced the table while the page size was positive
C2_Witness ==
    /\ last.op = "key"
    /\ last.action.kind = "TabularFilter"
    /\ last.res = "Ok"
    /\ tabular.data_frame.contents = "derived"
    /\ tabular.rendered_rows > 0
    /\ total_rows > 1

\* C3 as stated: go-up by n yields max(selected - n, 0), go-down by n yields
\* min(selected + n, total_rows - 1), for every machine-word n, and neither
\* overflows or panics.
C3_Saturating ==
    [][/\ (last'.op = "key" /\ last'.action.kind = "TabularGoUp")
            => /\ last'.res = "Ok"
               /\ tabular'.select = Max(tabular.select - last'.action.n, 0)
       /\ (last'.op = "key" /\ last'.action.kind = "TabularGoDown" /\ total_rows > 0)
            => /\ last'.res = "Ok"
               /\ tabular'.select = Min(tabular.select + last'.action.n, total_rows - 1)]_vars

\* C4: select(i) returns Ok and sets selected = min(i, total_rows - 1) when
\* total_rows > 0 and 0 when the table is empty; select_first yields 0 and
\* select_last yields total_rows - 1 (0 when empty).
C4_SelectClamps ==
    /\ (last.op = "key" /\ last.action.kind = "TabularGoto")
         => /\ last.res = "Ok"
            /\ tabular.select = IF total_rows > 0
                                THEN Min(last.action.n, total_rows - 1) ELSE 0
    /\ (last.op = "key" /\ last.action.kind = "TabularGotoFirst")
         => (last.res = "Ok" /\ tabular.select = 0)
    /\ (last.op = "key" /\ last.action.kind = "TabularGotoLast")
         => /\ last.res = "Ok"
            /\ tabular.select = IF total_rows > 0 THEN total_rows - 1 ELSE 0

\* a goto past the end of a table of several rows
C4_Witness ==
    /\ last.op = "key"
    /\ last.action.kind = "TabularGoto"
    /\ last.action.n >= total_rows
    /\ total_rows > 1
    /\ tabular.select = total_rows - 1

\* go-to-last on a 10-row table rendered with page size 5 is followed by
\* half-page-up
C5_Scenario ==
    /\ last.op = "key"
    /\ last.action.kind = "TabularGotoLast"
    /\ total_rows = 10
    /\ tabular.rendered_rows = 5
    /\ tabular.select = 9
    /\ last'.op = "key"
    /\ last'.action.kind = "TabularGoUpHalfPage"

\* C5 as stated: the scenario leaves selected = 4.
C5_HalfPageUpTo4 == [][C5_Scenario => tabular'.select = 4]_vars

\* C5 amended: the scenario leaves selected = 7 (half a page of 5 is 2 rows).
C5_HalfPageUpTo7 == [][C5_Scenario => tabular'.select = 7]_vars

\* half-page-up has acted from row 9 of the 10-row table with page size 5
C5_Witness ==
    /\ last.op = "key"
    /\ last.action.kind = "TabularGoUpHalfPage"
    /\ total_rows = 10
    /\ tabular.rendered_rows = 5
    /\ tabular.select = 7
    /\ tabular.offset = 5

(***************************************************************************)
(* Properties of the key resolver.                                         *)
(***************************************************************************)
\* the starting context followed by its ancestors up to the root
Chain(c) ==
    IF parent(c) = "" THEN <<c>>
    ELSE IF parent(parent(c)) = "" THEN <<c, parent(c)>>
    ELSE <<c, parent(c), parent(parent(c))>>

\* positions of the keybinds of a context registered for exactly the
\* (code, modifiers) pair of the event
BoundAt(c, e) ==
    {i \in 1 .. Len(KeybindList(c)) :
        /\ KeybindList(c)[i].code = e.code
        /\ KeybindList(c)[i].ch = e.ch
        /\ KeybindList(c)[i].mods = e.mods}

\* some keybind or the fallback of the context answers the event
Answers(c, e) == BoundAt(c, e) # {} \/ fall_back(c, e).some

\* the answer of a context: its first matching keybind, else its fallback
AnswerOf(c, e) ==
    IF BoundAt(c, e) # {}
    THEN KeybindList(c)[CHOOSE i \in BoundAt(c, e) : \A j \in BoundAt(c, e) : i <= j].action
    ELSE fall_back(c, e).action

\* C6: resolution is total and terminates: every call returns an action
\* after at most two parent steps, and it returns NoAction exactly when no
\* keybind and no fallback answers in the starting context or an ancestor.
C6_TotalAndTerminates ==
    /\ [](/\ kh.steps <= 2
          /\ kh.steps < Len(Chain(kh.start))
          /\ kh.pc = "done" =>
               (kh.act = KNoAction <=>
                  \A i \in 1 .. Len(Chain(kh.start)) : ~Answers(Chain(kh.start)[i], kh.event)))
    /\ <>(kh.pc = "done")

\* an event nobody answers, resolved from the deepest context
C6_Witness ==
    /\ kh.pc = "done"
    /\ kh.start = "Sheet"
    /\ kh.steps = 2
    /\ kh.event = Event("Tab", "", {})
    /\ kh.act = KNoAction

\* C7: the result is the first matching keybind of the nearest context of
\* the chain that answers, its fallback only if no keybind matches, the
\* parent only if neither does; 'q' in Sheet is TableDismissModal and of
\* the two Ctrl-d keybinds of Table the first is returned.
C7_ResolutionOrder ==
    kh.pc = "done" =>
        /\ \A i \in 1 .. Len(Chain(kh.start)) :
             (/\ Answers(Chain(kh.start)[i], kh.event)
              /\ \A j \in 1 .. i - 1 : ~Answers(Chain(kh.start)[j], kh.event))
                => kh.act = AnswerOf(Chain(kh.start)[i], kh.event)
        /\ (kh.start = "Sheet" /\ kh.event = Event("Char", "q", {}))
             => kh.act = KAction("TableDismissModal", "")
        /\ (kh.start = "Table" /\ kh.event = Event("Char", "d", {"CONTROL"}))
             => kh.act = KAction("TableGoDownHalfPage", "")

\* Ctrl-d, registered twice in Table, has been resolved there
C7_Witness ==
    /\ kh.pc = "done"
    /\ kh.start = "Table"
    /\ kh.event = Event("Char", "d", {"CONTROL"})
    /\ Cardinality(BoundAt("Table", kh.event)) = 2
    /\ kh.act = KAction("TableGoDownHalfPage", "")

\* the events bound at the root: q, Shift-H, Shift-L, Shift-Left,
\* Shift-Right, ':'
RootBound(e) == BoundAt("Empty", e) # {}

\* no context of the chain below the root has an explicit keybind for the pair
NoKeybindBelowRoot(c, e) ==
    \A i \in 1 .. Len(Chain(c)) : Chain(c)[i] # "Empty" => BoundAt(Chain(c)[i], e) = {}

\* no context of the chain below the root has a fallback answering the event
NoFallbackBelowRoot(c, e) ==
    \A i \in 1 .. Len(Chain(c)) : Chain(c)[i] # "Empty" => ~fall_back(Chain(c)[i], e).some

\* C8 as stated: an event bound at the root resolves to the root's action in
\* every context whose chain below the root has no explicit keybind for it.
C8_InheritsRoot ==
    (kh.pc = "done" /\ RootBound(kh.event) /\ NoKeybindBelowRoot(kh.start, kh.event))
        => kh.act = AnswerOf("Empty", kh.event)

\* C8 amended: ... whose chain below the root has neither an explicit
\* keybind for it nor a fallback that answers it.
C8_InheritsRootUnlessFallback ==
    (/\ kh.pc = "done"
     /\ RootBound(kh.event)
     /\ NoKeybindBelowRoot(kh.start, kh.event)
     /\ NoFallbackBelowRoot(kh.start, kh.event))
        => kh.act = AnswerOf("Empty", kh.event)

\* Shift-Left typed into the command palette reaches the root's TabPrev
C8_Witness ==
    /\ kh.pc = "done"
    /\ kh.start = "Command"
    /\ kh.steps = 1
    /\ kh.event = Event("Left", "", {"SHIFT"})
    /\ kh.act = KAction("TabPrev", "")

(***************************************************************************)
(* Properties of the command line (App::handle_key_event, App::invoke).    *)
(***************************************************************************)
\* the first word of a command line: the text before its first space
FirstWord(text) ==
    LET spaces == {i \in 1 .. Len(text) : text[i] = " "}
    IN  IF spaces = {} THEN text
        ELSE SubSeq(text, 1, (CHOOSE i \in spaces : \A j \in spaces : i <= j) - 1)

\* C9: committing a command line whose first word is not a registered
\* keyword produces the error "Command not found", moves the app to the
\* Error state and leaves table, selection, offset and view mode unchanged.
C9_CommandNotFound ==
    [][(/\ status_bar.kind = "Command"
        /\ FirstWord(status_bar.text) \notin Keywords
        /\ last'.op = "key"
        /\ last'.arm = "commit")
          => /\ status_bar' = StatusError("Command not found")
             /\ infer_state([tabular |-> tabular', status_bar |-> status_bar',
                             running |-> running']) = "Error"
             /\ tabular' = tabular]_vars

\* an unknown command was committed over a table scrolled off its first row
C9_Witness ==
    /\ last.op = "key"
    /\ last.arm = "commit"
    /\ last.err = "Command not found"
    /\ status_bar = StatusError("Command not found")
    /\ tabular.select > 0
    /\ tabular.offset > 0

FallibleKinds ==
    {"SqlQuery", "TabularSelect", "TabularOrder", "TabularFilter", "TabularReset"}

\* C10: when a dataset-replacing action fails (the engine rejects the query
\* of SqlQuery, TabularSelect, TabularOrder or TabularFilter, or
\* TabularReset finds no default frame) the table contents, headers, widths,
\* selection, offset and view mode are what they were before the action.
C10_FailedReplaceKeeps ==
    [][(/\ last'.op = "key"
        /\ last'.action.kind \in FallibleKinds
        /\ last'.res = "Err")
          => tabular' = tabular]_vars

\* a filter was rejected over a table scrolled off its first row
C10_Witness ==
    /\ last.op = "key"
    /\ last.action.kind = "TabularFilter"
    /\ last.res = "Err"
    /\ last.err = "engine error"
    /\ tabular.select > 0
    /\ tabular.offset > 0

(***************************************************************************)
(* Properties of the error state and of the prompt.                        *)
(***************************************************************************)
\* a commit whose parsing or invocation failed leaves the session running
\* and in the Error state
FailedCommitShowsError ==
    (last'.op = "key" /\ last'.arm = "commit" /\ last'.res = "Err")
        => (running' /\ status_bar'.kind = "Error")

\* Esc and ':' pressed in the Error state leave it
DismissKeysLeaveError ==
    (status_bar.kind = "Error" /\ last'.op = "key" /\ last'.arm \in {"esc", "colon"})
        => status_bar'.kind # "Error"

\* C11 as stated: a failure during a commit leaves the session running and
\* in the Error state, and the Error state persists until Esc or ':' is
\* pressed, after which the app is in a non-error state.
C11_ErrorUntilEscOrColon ==
    [][/\ FailedCommitShowsError
       /\ DismissKeysLeaveError
       /\ (status_bar.kind = "Error" /\ status_bar'.kind # "Error")
            => (last'.op = "key" /\ last'.arm \in {"esc", "colon"})]_vars

\* C11 amended: a failure during a commit leaves the session running and in
\* the Error state; Esc and ':' always leave the Error state; a render never
\* leaves it, and any other key leaves it only if the keybindings bind it to
\* an action that sets the status bar (the key is handed to the keybindings).
C11_ErrorUntilDismissed ==
    [][/\ FailedCommitShowsError
       /\ DismissKeysLeaveError
       /\ (status_bar.kind = "Error" /\ status_bar'.kind # "Error")
            => /\ last'.op = "key"
               /\ \/ last'.arm \in {"esc", "colon"}
                  \/ /\ last'.arm = "bound"
                     /\ last'.action.kind \in {"StatusBarStats", "StatusBarCommand"}]_vars

\* a scroll command was committed outside the detail view
C11_Witness ==
    /\ last.op = "key"
    /\ last.arm = "commit"
    /\ last.res = "Err"
    /\ last.err = "Not in detail view"
    /\ running
    /\ status_bar = StatusError("Not in detail view")

\* C12 as stated: Esc in the prompt discards the buffer and returns the app
\* to the context the prompt was opened from (Tabular, Detail or Error), with
\* the dataset, selection, offset and view mode untouched.
C12_EscReturnsToOpeningContext ==
    [][(status_bar.kind = "Command" /\ last'.op = "key" /\ last'.arm = "esc")
         => /\ status_bar'.kind # "Command"
            /\ infer_state(TheApp') = last.from
            /\ tabular' = tabular
            /\ sql' = sql]_vars

\* C12 amended: Esc in the prompt discards the buffer and returns the app to
\* the table context under the prompt: Tabular, or Detail when a detail
\* scroll exists; this is the context the prompt was opened from unless that
\* was Error, which is not restored. The dataset, selection, offset and view
\* mode are untouched.
C12_EscReturnsToTable ==
    [][(status_bar.kind = "Command" /\ last'.op = "key" /\ last'.arm = "esc")
         => /\ status_bar' = StatusNormal
            /\ infer_state(TheApp') = IF tabular.scroll.some THEN "Detail" ELSE "Tabular"
            /\ last.from \in {"Tabular", "Detail"} => infer_state(TheApp') = last.from
            /\ last.from \in {"Tabular", "Detail", "Error"}
            /\ tabular' = tabular
            /\ sql' = sql]_vars

\* a prompt opened from the Error context was cancelled
C12_Witness ==
    /\ last.op = "key"
    /\ last.arm = "esc"
    /\ last.from = "Error"
    /\ status_bar = StatusNormal

\* C13: while the prompt is open every key other than Enter is a cancel
\* (Esc) or goes to the text input only: no bound action is invoked, the
\* prompt stays open on input, and the table, selection, offset, view mode
\* and dataset are unchanged.
C13_PromptTakesKeys ==
    [][(status_bar.kind = "Command" /\ last'.op = "key" /\ last'.arm # "commit")
         => /\ last'.arm \in {"esc", "input"}
            /\ last'.action = NoAction
            /\ last'.res = "Ok"
            /\ last'.arm = "input" => status_bar'.kind = "Command"
            /\ tabular' = tabular
            /\ sql' = sql
            /\ running' = running]_vars

\* a character was typed into the prompt over a table with a selection
C13_Witness ==
    /\ last.op = "key"
    /\ last.arm = "input"
    /\ status_bar.kind = "Command"
    /\ Len(status_bar.text) > 0
    /\ tabular.select > 0

ScrollKinds == {"DetailScrollUp", "DetailScrollDown"}

\* C14: a scroll action outside the detail view returns the error "Not in
\* detail view" and changes nothing (nothing at all when a key is bound to
\* it; nothing but the status bar showing the error when it is committed
\* from the prompt); in the detail view it returns Ok and changes only the
\* scroll position.
C14_ScrollNeedsDetailView ==
    [][(last'.op = "key" /\ last'.action.kind \in ScrollKinds)
         => /\ sql' = sql
            /\ running' = running
            /\ ~tabular.scroll.some
                 => /\ last'.res = "Err"
                    /\ last'.err = "Not in detail view"
                    /\ tabular' = tabular
                    /\ last'.arm = "bound" => status_bar' = status_bar
                    /\ last'.arm = "commit" => status_bar' = StatusError("Not in detail view")
            /\ tabular.scroll.some
                 => /\ last'.res = "Ok"
                    /\ tabular'.scroll.some
                    /\ tabular' = [tabular EXCEPT !.scroll = tabular'.scroll]
                    /\ last'.arm = "bound" => status_bar' = status_bar]_vars

\* a key bound to scroll-down was pressed outside the detail view
C14_Witness ==
    /\ last.op = "key"
    /\ last.arm = "bound"
    /\ last.action.kind = "DetailScrollDown"
    /\ last.res = "Err"
    /\ last.err = "Not in detail view"
    /\ ~tabular.scroll.some

\* scroll-down moved the scroll position in the detail view
C14_WitnessDetail ==
    /\ last.op = "key"
    /\ last.action.kind = "DetailScrollDown"
    /\ last.res = "Ok"
    /\ tabular.scroll.some
    /\ tabular.scroll.val > 0

\* apps that agree with the current one on the kind of the status bar and on
\* the presence of a detail scroll, and differ from it in everything else
SameStatusAndScroll ==
    {[tabular |-> [TabularNew(DataFrame(c, h)) EXCEPT
                      !.scroll = IF tabular.scroll.some THEN SomeScroll(v) ELSE NoScroll],
      status_bar |-> sb,
      running |-> r] :
        c \in {"default", "sql"}, h \in {0, MaxRows}, v \in {0, MaxLines}, r \in BOOLEAN,
        sb \in {b \in {StatusNormal, StatusError("engine error"), StatusCommand(<<"c">>)} :
                  b.kind = status_bar.kind}}

\* C15: infer_state is Error iff the status bar holds an error, Command iff
\* it holds a prompt, otherwise Detail iff a detail scroll exists and Tabular
\* iff not; an error or a prompt takes precedence over the detail scroll, and
\* apps equal on (status-bar kind, scroll present) classify identically.
C15_ContextIsInferred ==
    LET state == infer_state(TheApp)
    IN  /\ state \in {"Tabular", "Detail", "Error", "Command"}
        /\ (state = "Error") <=> (status_bar.kind = "Error")
        /\ (state = "Command") <=> (status_bar.kind = "Command")
        /\ (state = "Detail") <=> (status_bar.kind = "Normal" /\ tabular.scroll.some)
        /\ (state = "Tabular") <=> (status_bar.kind = "Normal" /\ ~tabular.scroll.some)
        /\ \A app \in SameStatusAndScroll : infer_state(app) = state

\* an error is shown over an open detail view
C15_Witness ==
    /\ status_bar.kind = "Error"
    /\ tabular.scroll.some
    /\ infer_state(TheApp) = "Error"
    /\ last.op = "key"

(***************************************************************************)
(* Properties of the width inference.                                      *)
(***************************************************************************)
\* length of the longest line of the file read
LongestLine ==
    IF fwf.lines = <<>> THEN 0
    ELSE CHOOSE n \in {Len(fwf.lines[i]) : i \in 1 .. Len(fwf.lines)} :
            \A i \in 1 .. Len(fwf.lines) : Len(fwf.lines[i]) <= n

\* the character positions that are whitespace in every line of the file
SharedSpaces ==
    {p \in 0 .. LongestLine - 1 :
        \A i \in 1 .. Len(fwf.lines) :
            p < Len(fwf.lines[i]) /\ fwf.lines[i][p + 1] = " "}

\* first character of the k-th inferred column: each column is followed by
\* its one boundary character
RECURSIVE ColumnStart(_, _)
ColumnStart(widths, k) ==
    IF k = 1 THEN 0 ELSE ColumnStart(widths, k - 1) + widths[k - 1] + 1

\* the positions of the k-th inferred column
ColumnSpan(widths, k) ==
    ColumnStart(widths, k) .. ColumnStart(widths, k) + widths[k] - 1

\* a shared whitespace column with a character that is not shared whitespace
\* on either side
Isolated(p) ==
    /\ p \in SharedSpaces
    /\ p >= 1 /\ p - 1 \notin SharedSpaces
    /\ p + 1 < LongestLine /\ p + 1 \notin SharedSpaces

\* C18: two lines of 11 characters whose shared whitespace columns are
\* {3, 4, 8} give exactly three columns that cover the fields 0-2, 5-7 and
\* 9-10; and an isolated shared whitespace column gives one boundary: one
\* column ends at it, the next starts right after it, and neither is empty.
C18_PaddedFieldsSeparated ==
    fwf.pc = "done" =>
        /\ (/\ Len(fwf.lines) = 2
            /\ Len(fwf.lines[1]) = 11 /\ Len(fwf.lines[2]) = 11
            /\ SharedSpaces = {3, 4, 8})
             => /\ Len(fwf.widths) = 3
                /\ (0 .. 2) \subseteq ColumnSpan(fwf.widths, 1)
                /\ (5 .. 7) = ColumnSpan(fwf.widths, 2)
                /\ (9 .. 10) = ColumnSpan(fwf.widths, 3)
                /\ ColumnSpan(fwf.widths, 1) \subseteq (0 .. 3)
        /\ \A p \in SharedSpaces :
              Isolated(p) =>
                 /\ Cardinality({k \in 1 .. Len(fwf.widths) :
                        ColumnStart(fwf.widths, k) + fwf.widths[k] = p}) = 1
                 /\ \E k \in 1 .. Len(fwf.widths) - 1 :
                       /\ ColumnStart(fwf.widths, k) + fwf.widths[k] = p
                       /\ fwf.widths[k] >= 1
                       /\ ColumnStart(fwf.widths, k + 1) = p + 1
                       /\ fwf.widths[k + 1] >= 1

\* the widths of a padded two-line file have been inferred
C18_Witness ==
    /\ fwf.pc = "done"
    /\ Len(fwf.lines) = 2
    /\ Len(fwf.lines[1]) = 11 /\ Len(fwf.lines[2]) = 11
    /\ SharedSpaces = {3, 4, 8}
    /\ fwf.lines[1] # fwf.lines[2]
    /\ fwf.indices = <<3, 4, 8, 11>>
    /\ fwf.widths = <<4, 3, 2>>

\* a short file with an isolated shared whitespace column
C18_WitnessIsolated ==
    /\ fwf.pc = "done"
    /\ Len(fwf.lines) = 2
    /\ Isolated(1)
    /\ fwf.widths = <<1, 1>>

\* C19: when no character position is whitespace in every line, width
\* inference yields exactly one column, as wide as the longest line.
C19_NoSharedSpaceOneColumn ==
    (fwf.pc = "done" /\ fwf.lines # <<>> /\ SharedSpaces = {})
        => fwf.widths = <<LongestLine>>

\* two lines of different lengths with whitespace at different positions
C19_Witness ==
    /\ fwf.pc = "done"
    /\ Len(fwf.lines) = 2
    /\ Len(fwf.lines[1]) > Len(fwf.lines[2])
    /\ line_spaces(fwf.lines[1]) # {}
    /\ line_spaces(fwf.lines[2]) # {}
    /\ SharedSpaces = {}
    /\ fwf.widths = <<Len(fwf.lines[1])>>

(***************************************************************************)
(* Properties of the schema inference.                                     *)
(***************************************************************************)
\* the candidate types in the order the claim gives
StatedOrder == <<"Int64", "Float64", "Boolean", "Date", "Time", "Datetime">>

\* the cast of the column to the k-th stated type succeeds with the null
\* positions it had before
Qualifies(col, k) ==
    LET c == cast(col, StatedOrder[k], schema.str_bool)
    IN  /\ c.ok
        /\ \A i \in 1 .. Len(col.values) : c.series.values[i].null <=> col.values[i].null

\* the column the claim says inference leaves in the place of col
Promoted(col) ==
    LET ks == {k \in 1 .. Len(StatedOrder) : Qualifies(col, k)}
    IN  IF ks = {} THEN col
        ELSE cast(col, StatedOrder[CHOOSE k \in ks : \A j \in ks : k <= j],
                  schema.str_bool).series

\* a text column with a value, all of whose values are among the texts
TextOf(col, texts) ==
    /\ col.dtype = "String"
    /\ \E i \in 1 .. Len(col.values) : ~col.values[i].null
    /\ \A i \in 1 .. Len(col.values) : col.values[i].null \/ col.values[i].s \in texts

\* C16: inference replaces each column by its cast to the first type, in the
\* order integer, float, boolean, date, time, date-time, that keeps the null
\* positions, and leaves a column that no type qualifies for as it is; text
\* of integers becomes Int64, of decimals Float64, of dates Date, and a text
\* column with any other text stays String.
C16_FirstLosslessCandidate ==
    schema.runs >= 1 =>
        /\ Len(schema.once) = Len(schema.input)
        /\ \A i \in 1 .. Len(schema.input) :
              LET col == schema.input[i]
                  out == schema.once[i]
              IN  /\ out = Promoted(col)
                  /\ out.name = col.name
                  /\ is_null(out) = is_null(col)
                  /\ TextOf(col, {"1"}) => out.dtype = "Int64"
                  /\ TextOf(col, {"1.5"}) => out.dtype = "Float64"
                  /\ TextOf(col, {"2022-1-1"}) => out.dtype = "Date"
                  /\ (col.dtype = "String" /\ \E j \in 1 .. Len(col.values) :
                                                 col.values[j] = TextCell("a"))
                       => out = col

\* a frame of a decimal column and of a column holding other text
C16_Witness ==
    /\ schema.runs = 1
    /\ Len(schema.input) = 2
    /\ schema.input[1] = Series("a", "String", <<TextCell("1.5")>>)
    /\ schema.input[2] = Series("b", "String", <<TextCell("a")>>)
    /\ schema.once[1] = Series("a", "Float64", <<ValCell(15)>>)
    /\ schema.once[2] = schema.input[2]

\* a column of two rows, one null, is promoted past the integer candidate
C16_WitnessNull ==
    /\ schema.runs = 1
    /\ schema.input = <<Series("a", "String", <<NullCell, TextCell("2022-1-1")>>)>>
    /\ schema.once = <<Series("a", "Date", <<NullCell, ValCell(1)>>)>>

TypedFrame(df) ==
    \A i \in 1 .. Len(df) : df[i].dtype \in {"Int64", "Float64", "Boolean", "Date", "Time", "Datetime"}

\* C17 as stated: inferring the schema of an inferred frame changes nothing,
\* and inferring the schema of a frame whose columns are all typed changes
\* no type and no value.
C17_Idempotent ==
    /\ schema.runs = 2 => schema.df = schema.once
    /\ (schema.runs >= 1 /\ TypedFrame(schema.input)) => schema.once = schema.input

(***************************************************************************)
(* Properties of the fuzzy comparison.                                     *)
(***************************************************************************)
\* the characters of the query from the j-th on occur in the text from its
\* i-th character on, in the same relative order
RECURSIVE OccursInOrder(_, _, _, _)
OccursInOrder(query, j, text, i) ==
    IF j > Len(query) THEN TRUE
    ELSE \E k \in i .. Len(text) :
            text[k] = query[j] /\ OccursInOrder(query, j + 1, text, k + 1)

\* C20 as stated: a cell matches a query iff the characters of the query all
\* occur in the text of the cell in the same relative order; so the empty
\* query matches every cell, "ac" matches "abc" and "ba" does not.
C20_OrderedSubsequence ==
    fuzzy.pc = "done" =>
        /\ fuzzy.result = OccursInOrder(fuzzy.other, 1, into_multi_line(fuzzy.value), 1)
        /\ fuzzy.other = <<>> => fuzzy.result
        /\ (fuzzy.value = StringValue(<<"a", "b", "c">>) /\ fuzzy.other = <<"a", "c">>)
             => fuzzy.result
        /\ (fuzzy.value = StringValue(<<"a", "b", "c">>) /\ fuzzy.other = <<"b", "a">>)
             => ~fuzzy.result


(***************************************************************************)
(* Detail scroll across rows and datasets.                                 *)
(***************************************************************************)
\* C21: whenever the detail view is entered, and whenever the selected row
\* changes or the dataset is replaced while the detail view is showing, the
\* detail scroll offset is 0 for the newly shown row.
C21_FreshScroll ==
    [][(last'.op = "key" /\ last'.res = "Ok" /\ tabular'.scroll.some)
         => /\ ~tabular.scroll.some => tabular'.scroll.val = 0
            /\ (tabular.scroll.some /\ tabular'.select # tabular.select)
                 => tabular'.scroll.val = 0
            /\ (tabular.scroll.some /\ last'.action.kind \in ReplaceKinds)
                 => tabular'.scroll.val = 0]_vars

(***************************************************************************)
(* The offset after a render of the table view.                            *)
(***************************************************************************)
\* C22: immediately after every table-view render the window contains the
\* selection and the offset moved minimally: with r = rendered_rows, when
\* r = 0 the offset is the selection; otherwise, if the selection was below
\* the old offset the offset is the selection, if the selection was at or
\* past old offset + r the offset is selection - r + 1, and else the offset
\* is unchanged.
C22_MinimalMove ==
    [][(last'.op = "draw" /\ ~tabular.scroll.some)
         => LET r == tabular'.rendered_rows
                s == tabular.select
                o == tabular.offset
            IN  /\ tabular'.select = s
                /\ r = 0 => tabular'.offset = s
                /\ r > 0 =>
                     /\ tabular'.offset <= s
                     /\ s <= tabular'.offset + r - 1
                     /\ tabular'.offset =
                          IF s < o THEN s
                          ELSE IF s >= o + r THEN s - r + 1
                          ELSE o]_vars

\* a render of several rows that had to move the window up to the selection
\* in the middle of the table
C22_Witness ==
    /\ last.op = "draw"
    /\ ~tabular.scroll.some
    /\ tabular.rendered_rows >= 2
    /\ tabular.offset = tabular.select
    /\ tabular.select >= 1
    /\ tabular.select + tabular.rendered_rows <= total_rows

(***************************************************************************)
(* Properties of the default binding tables (KeyHandler::default).         *)
(***************************************************************************)
\* C23: in the Table context Ctrl-b and PageUp resolve to TableGoUpFullPage,
\* Ctrl-f and PageDown resolve to TableGoDownFullPage, Ctrl-u resolves to
\* TableGoUpHalfPage and Ctrl-d to TableGoDownHalfPage.
C23_PageKeys ==
    (kh.pc = "done" /\ kh.start = "Table") =>
        /\ kh.event \in {Event("Char", "b", {"CONTROL"}), Event("PageUp", "", {})}
             => kh.act = KAction("TableGoUpFullPage", "")
        /\ kh.event \in {Event("Char", "f", {"CONTROL"}), Event("PageDown", "", {})}
             => kh.act = KAction("TableGoDownFullPage", "")
        /\ kh.event = Event("Char", "u", {"CONTROL"})
             => kh.act = KAction("TableGoUpHalfPage", "")
        /\ kh.event = Event("Char", "d", {"CONTROL"})
             => kh.act = KAction("TableGoDownHalfPage", "")

\* a digit key for which Table registers no explicit keybind has been
\* resolved from the Table context
UnboundDigitInTable ==
    /\ kh.pc = "done"
    /\ kh.start = "Table"
    /\ kh.event.code = "Char"
    /\ kh.event.ch \in Digits
    /\ BoundAt("Table", kh.event) = {}

\* C24 as stated: in the Table context every digit key d that matches no
\* explicit keybind resolves to PalleteShow("goto d").
C24_EveryDigitOpensGoto ==
    UnboundDigitInTable => kh.act = KAction("PalleteShow", "goto " \o kh.event.ch)

\* C24 amended: every digit key from 1 to 9 that matches no explicit keybind
\* resolves to PalleteShow("goto d"), whatever modifiers are held; the digit
\* 0 is no shortcut and resolves to NoAction.
C24_NonZeroDigitOpensGoto ==
    UnboundDigitInTable =>
        kh.act = IF kh.event.ch = "0" THEN KNoAction
                 ELSE KAction("PalleteShow", "goto " \o kh.event.ch)

\* the digit 7 pressed in the table opened the palette with "goto 7"
C24_Witness ==
    /\ UnboundDigitInTable
    /\ kh.event = Event("Char", "7", {})
    /\ kh.steps = 0
    /\ kh.act = KAction("PalleteShow", "goto 7")

\* the only actions a key pressed in the Error context may resolve to
ErrorActions ==
    {KAction("DismissError", ""), KAction("DismissErrorAndShowPallete", "")}

\* C25: for every key event, resolution in the Error context returns
\* DismissErrorAndShowPallete if the event is ':' without modifiers and
\* DismissError otherwise; it is answered in the Error context itself, so
\* no key resolves to NoAction, to a navigation action or to a root binding.
C25_ErrorBlocks ==
    (kh.start = "Error" /\ kh.pc = "done") =>
        /\ kh.act = IF kh.event = Event("Char", ":", {})
                    THEN KAction("DismissErrorAndShowPallete", "")
                    ELSE KAction("DismissError", "")
        /\ kh.act \in ErrorActions
        /\ kh.context = "Error"
        /\ kh.steps = 0

\* 'q', the root's quit key, pressed while an error is showing
C25_Witness ==
    /\ kh.start = "Error"
    /\ kh.pc = "done"
    /\ kh.event = Event("Char", "q", {})
    /\ RootBound(kh.event)
    /\ kh.act = KAction("DismissError", "")

(***************************************************************************)
(* The prompt after a commit.                                              *)
(***************************************************************************)
\* C26: after Enter is handled in the Command state the app is never still
\* in the Command state: it is in a normal state (Tabular or Detail) if the
\* command was found, parsed and invoked successfully, and in the Error
\* state in every other case.
C26_CommitClosesPrompt ==
    (last.op = "key" /\ last.arm = "commit" /\ last.res # "Panic") =>
        /\ infer_state(TheApp) # "Command"
        /\ last.res = "Ok" => infer_state(TheApp) \in {"Tabular", "Detail"}
        /\ last.res # "Ok" =>
             /\ infer_state(TheApp) = "Error"
             /\ status_bar = StatusError(last.err)

\* the committed command was itself the action that opens a prompt, and the
\* prompt is closed all the same
C26_Witness ==
    /\ last.op = "key"
    /\ last.arm = "commit"
    /\ last.res = "Ok"
    /\ last.action.kind = "StatusBarCommand"
    /\ infer_state(TheApp) = "Detail"

\* a commit whose invocation failed ended in the Error state
C26_WitnessError ==
    /\ last.op = "key"
    /\ last.arm = "commit"
    /\ last.res = "Err"
    /\ last.action.kind = "TabularReset"
    /\ infer_state(TheApp) = "Error"

(***************************************************************************)
(* Properties of the dataset transforms.                                   *)
(***************************************************************************)
\* the query a transform action synthesizes
TransformQuery(action) ==
    CASE action.kind = "TabularSelect" -> SelectFromDf(action.s)
      [] action.kind = "TabularOrder" -> OrderDf(action.s)
      [] action.kind = "TabularFilter" -> FilterDf(action.s)

\* the step showed the engine's answer r, or kept the table when r is an error
Shows(r) ==
    IF r.ok
    THEN last'.res = "Ok" /\ tabular'.data_frame = r.df
    ELSE last'.res = "Err" /\ tabular' = tabular

\* C27: select, order and filter are evaluated against the table currently
\* shown, so consecutive transforms compose; a user-typed query is evaluated
\* against the session's original backend; and after any sequence of
\* transforms a reset shows the default dataset again when one exists.
C27_TransformsCompose ==
    [][last'.op = "key" =>
         /\ sql' = sql
         /\ sql.tables["t"] \in StartFrames(XMaxRows)
         /\ last'.action.kind \in {"TabularSelect", "TabularOrder", "TabularFilter"}
              => Shows(apply_query(TransformQuery(last'.action), tabular.data_frame))
         /\ last'.action.kind = "SqlQuery"
              => Shows(execute_query(sql, last'.action.s))
         /\ (last'.action.kind = "TabularReset" /\ sql.default # NoFrame)
              => /\ last'.res = "Ok"
                 /\ tabular'.data_frame = sql.default
                 /\ sql.default = sql.tables["t"]]_vars

\* a filter applied to the result of a select: the table shown has one of
\* the session's two columns and one of its rows
C27_Witness ==
    /\ last.op = "key"
    /\ last.action.kind = "TabularFilter"
    /\ last.res = "Ok"
    /\ tabular.data_frame.cols = {"a"}
    /\ tabular.data_frame.rows = <<1>>
    /\ sql.tables["t"].cols = XCols
    /\ sql.tables["t"].height > 1

\* a reset brought the default frame back over a transformed table
C27_WitnessReset ==
    /\ last.op = "key"
    /\ last.action.kind = "TabularReset"
    /\ last.res = "Ok"
    /\ tabular.data_frame = sql.default
    /\ tabular.data_frame.height > 1

\* the insert action of a text-entry context
InsertKind(context) ==
    IF context = "Command" THEN "PalleteInsert" ELSE "SearchInsert"

\* C28: in the Command and Search contexts every key event whose code is a
\* character and that matches no explicit keybind of the context resolves,
\* in that context, to the insert action for that character, whatever
\* modifiers are held; so no character key reaches the root's bindings, and
\* an event that leaves the context is a non-character key that the context
\* does not bind.
C28_TextEntryTakesCharacters ==
    (kh.pc = "done" /\ kh.start \in {"Command", "Search"}) =>
        /\ (kh.event.code = "Char" /\ BoundAt(kh.start, kh.event) = {})
             => kh.act = KAction(InsertKind(kh.start), kh.event.ch)
        /\ kh.event.code = "Char"
             => /\ kh.context = kh.start
                /\ kh.steps = 0
        /\ kh.steps > 0
             => /\ kh.event.code # "Char"
                /\ BoundAt(kh.start, kh.event) = {}

\* Shift-H, the root's previous-tab key, typed into the search field
C28_Witness ==
    /\ kh.pc = "done"
    /\ kh.start = "Search"
    /\ kh.event = Event("Char", "H", {"SHIFT"})
    /\ RootBound(kh.event)
    /\ kh.act = KAction("SearchInsert", "H")

\* a character held with Ctrl and Alt typed into the command palette
C28_WitnessModifiers ==
    /\ kh.pc = "done"
    /\ kh.start = "Command"
    /\ kh.event = Event("Char", "q", {"CONTROL", "ALT"})
    /\ kh.act = KAction("PalleteInsert", "q")

(***************************************************************************)
(* Random selection.                                                       *)
(***************************************************************************)
\* C29: select_random completes without failure for every total_rows >= 0:
\* when total_rows > 0 it leaves selected in [0, total_rows), and when the
\* table is empty it leaves selected = 0.
C29_RandomNeverFails ==
    (last.op = "key" /\ last.action.kind = "TabularGotoRandom") =>
        /\ last.res = "Ok"
        /\ total_rows > 0 => (0 <= tabular.select /\ tabular.select < total_rows)
        /\ total_rows = 0 => tabular.select = 0

(***************************************************************************)
(* The rendered window and the end of the table.                           *)
(***************************************************************************)
\* C30: after every table-view render, total_rows >= rendered_rows implies
\* offset + rendered_rows <= total_rows, so that every rendered row index
\* offset .. offset + rendered_rows - 1 is a valid row.
C30_WindowWithinTable ==
    (last.op = "draw" /\ ~tabular.scroll.some /\ total_rows >= tabular.rendered_rows)
        => /\ tabular.offset + tabular.rendered_rows <= total_rows
           /\ \A row_idx \in tabular.offset .. tabular.offset + tabular.rendered_rows - 1 :
                row_idx < total_rows

(***************************************************************************)
(* Properties of the inferred widths as a whole.                           *)
(***************************************************************************)
RECURSIVE SumOf(_)
SumOf(widths) == IF widths = <<>> THEN 0 ELSE Head(widths) + SumOf(Tail(widths))

\* the position of the separator that follows the k-th inferred column
SeparatorAfter(widths, k) == ColumnStart(widths, k) + widths[k]

\* C31: for every file with at least one line the inferred widths w_1..w_k
\* have k >= 1 and w_1 + ... + w_k + (k - 1) equal to the longest line's
\* length, each separator sits on the last position of a maximal run of
\* shared whitespace columns, and no subtraction of the walk underflows
\* (every difference it takes is >= 0).
C31_WidthsTileLongestLine ==
    (fwf.pc = "done" /\ fwf.lines # <<>>) =>
        /\ Len(fwf.widths) >= 1
        /\ SumOf(fwf.widths) + (Len(fwf.widths) - 1) = LongestLine
        /\ \A k \in 1 .. Len(fwf.widths) - 1 :
              /\ SeparatorAfter(fwf.widths, k) \in SharedSpaces
              /\ SeparatorAfter(fwf.widths, k) + 1 \notin SharedSpaces
        /\ \A k \in 1 .. Len(fwf.widths) : fwf.widths[k] >= 0
        /\ \A i \in 1 .. Len(fwf.indices) - 1 : fwf.indices[i + 1] - fwf.indices[i] >= 1

\* two lines of different lengths that share one whitespace column, which
\* separates two inferred columns
C31_Witness ==
    /\ fwf.pc = "done"
    /\ Len(fwf.lines) = 2
    /\ Len(fwf.lines[1]) # Len(fwf.lines[2])
    /\ Len(fwf.widths) = 2
    /\ SeparatorAfter(fwf.widths, 1) \in SharedSpaces
    /\ fwf.widths[1] + fwf.widths[2] + 1 = LongestLine

\* a padded file whose separator is the second of two adjacent shared
\* whitespace columns
C31_WitnessRun ==
    /\ fwf.pc = "done"
    /\ Len(fwf.widths) = 3
    /\ {3, 4} \subseteq SharedSpaces
    /\ SeparatorAfter(fwf.widths, 1) = 4

\* C32: for every file with at least one non-empty line every inferred
\* width is >= 1, also when all lines share leading or trailing whitespace
\* columns.
C32_NoEmptyColumn ==
    (fwf.pc = "done" /\ \E i \in 1 .. Len(fwf.lines) : Len(fwf.lines[i]) >= 1)
        => \A k \in 1 .. Len(fwf.widths) : fwf.widths[k] >= 1

(***************************************************************************)
(* Properties of the schema view.                                          *)
(***************************************************************************)
\* the largest offset the last render allows:
\* max(0, field_count - (area_height - 2)), area_height - 2 saturating at 0
LargestFieldOffset ==
    Max(0, field_info.len - Max(0, field_info.height - 2))

\* the last render drew the table: the block left room and there are fields
FieldTableDrawn ==
    field_info.width > 2 /\ field_info.height > 1 /\ field_info.len > 0

\* C33 as stated: after every render of the schema table its offset lies in
\* [0, max(0, field_count - (area_height - 2))], for every area height and
\* every field count, and an offset already inside that range is left
\* unchanged.
C33_FieldOffsetClamped ==
    field_info.pc = "rendered" =>
        /\ 0 <= field_info.offset
        /\ field_info.offset <= LargestFieldOffset
        /\ field_info.before <= LargestFieldOffset
             => field_info.offset = field_info.before

\* C33 as the code has it: after every render of the schema table its offset
\* lies in [0, max(0, field_count - (area_height - 2))]; with no row selected
\* an offset already inside that range is left unchanged, except that a drawn
\* table moves an offset equal to the field count to the last field.
C33_FieldOffsetKeptBelowLastRow ==
    field_info.pc = "rendered" =>
        /\ 0 <= field_info.offset
        /\ field_info.offset <= LargestFieldOffset
        /\ (field_info.before <= LargestFieldOffset /\ field_info.before_selected = {})
             => field_info.offset =
                    IF FieldTableDrawn
                    THEN Min(field_info.before, field_info.len - 1)
                    ELSE field_info.before

\* a render that pulled the offset back to the largest one allowed
C33_Witness ==
    /\ field_info.pc = "rendered"
    /\ field_info.before_selected = {}
    /\ FieldTableDrawn
    /\ field_info.height > 2
    /\ field_info.len > field_info.height - 2
    /\ field_info.before > LargestFieldOffset
    /\ field_info.offset = LargestFieldOffset

\* a render that left a positive offset where it was
C33_WitnessKept ==
    /\ field_info.pc = "rendered"
    /\ field_info.before_selected = {}
    /\ FieldTableDrawn
    /\ field_info.height > 2
    /\ field_info.before > 0
    /\ field_info.offset = field_info.before

\* a render that moved an offset inside the range from the field count to
\* the last field
C33_WitnessLastRow ==
    /\ field_info.pc = "rendered"
    /\ field_info.before_selected = {}
    /\ FieldTableDrawn
    /\ field_info.before = field_info.len
    /\ field_info.before <= LargestFieldOffset
    /\ field_info.offset = field_info.len - 1
====
